---- MODULE Spec2Model ----
(***************************************************************************)
(* State-machine model of the numerical analytics engines of               *)
(* nifty_expiry_predictor: MaxPainCalculator (features/max_pain.py),       *)
(* GammaExposureCalculator (features/gex_calculator.py) and                *)
(* GreeksCalculator (features/greeks_calculator.py).                       *)
(*                                                                         *)
(* Every engine call is a pure function of its arguments, so each engine   *)
(* has its own specification: Init draws the arguments from bounded sets   *)
(* and the actions apply the call.  Variables an engine does not use keep  *)
(* their idle value.                                                       *)
(***************************************************************************)
EXTENDS Integers, Sequences, FiniteSets, TLC

VARIABLES
    pc,            \* position of the caller: "start", "call", "loop", "done"
    option_chain,  \* the snapshot handed to an engine: a sequence of rows
    args,          \* the scalar arguments of the call
    ret,           \* what the call returned or raised
    loc            \* the local variables of implied_volatility's loop

vars == <<pc, option_chain, args, ret, loc>>

(***************************************************************************)
(* Floating-point special values.  A float is modelled by an integer; the  *)
(* three values below stand for inf, -inf and nan and lie outside the      *)
(* range of every finite value of the model.                               *)
(***************************************************************************)
PosInf == 2 * 10^9
NegInf == 0 - PosInf
NaN == 21 * 10^8

\* a real r is held as the integer nearest r * FP
FP == 10^4
\* finite values have magnitude <= FiniteMax; a larger result overflows to inf
FiniteMax == 10^9

IsNaN(x) == x = NaN
IsFinite(x) == x # NaN /\ x # PosInf /\ x # NegInf

\* pandas.notna on a scalar: inf counts as a value, only nan is missing
notna(x) == x # NaN

\* Series.fillna(v)
fillna(x, v) == IF x = NaN THEN v ELSE x

Abs(x) == IF x < 0 THEN 0 - x ELSE x

Sgn(x) == IF x > 0 THEN 1 ELSE IF x < 0 THEN 0 - 1 ELSE 0
Min(a, b) == IF a <= b THEN a ELSE b
Max(a, b) == IF a >= b THEN a ELSE b

(***************************************************************************)
(* IEEE arithmetic on the modelled floats: nan propagates, inf - inf,      *)
(* inf * 0, inf / inf and 0 / 0 are nan, x / 0 is +-inf (numpy warns and   *)
(* does not raise), overflow gives +-inf.                                  *)
(***************************************************************************)
Sat(z) == IF z > FiniteMax THEN PosInf ELSE IF z < 0 - FiniteMax THEN NegInf ELSE z

XNeg(x) == IF x = NaN THEN NaN ELSE 0 - x

XAdd(x, y) ==
    IF x = NaN \/ y = NaN THEN NaN
    ELSE IF IsFinite(x) /\ IsFinite(y) THEN Sat(x + y)
    ELSE IF IsFinite(y) THEN x
    ELSE IF IsFinite(x) THEN y
    ELSE IF x = y THEN x ELSE NaN

XSub(x, y) == XAdd(x, XNeg(y))

\* the signed result of a product or quotient whose magnitude is mag
WithSign(x, y, mag) ==
    IF mag = PosInf
    THEN (IF Sgn(x) * Sgn(y) > 0 THEN PosInf ELSE NegInf)
    ELSE (IF Sgn(x) * Sgn(y) >= 0 THEN mag ELSE 0 - mag)

\* a product with a nan or an infinite factor; "none" when both are finite
SpecialMul(x, y) ==
    IF x = NaN \/ y = NaN THEN NaN
    ELSE IF x = 0 \/ y = 0 THEN NaN
    ELSE IF Sgn(x) * Sgn(y) > 0 THEN PosInf ELSE NegInf

\* x * y where one factor is a plain number (a count, a price in points)
IMulMag(a, b) ==
    IF a = 0 \/ b = 0 THEN 0
    ELSE IF a > FiniteMax \div b THEN PosInf
    ELSE a * b
IMul(x, y) ==
    IF IsFinite(x) /\ IsFinite(y)
    THEN WithSign(x, y, IMulMag(Abs(x), Abs(y)))
    ELSE SpecialMul(x, y)

\* x * y of two reals: round(a * b / FP), the factors split in base 100
MulFPMag(a, b) ==
    LET ah == a \div 100
        al == a % 100
        bh == b \div 100
        bl == b % 100
    IN  IF ah # 0 /\ bh # 0 /\ ah > FiniteMax \div bh THEN PosInf
        ELSE LET r == ah * bh
                      + (ah * bl + al * bh + (al * bl + FP \div 2) \div 100) \div 100
             IN  IF r > FiniteMax THEN PosInf ELSE r
MulFP(x, y) ==
    IF IsFinite(x) /\ IsFinite(y)
    THEN WithSign(x, y, MulFPMag(Abs(x), Abs(y)))
    ELSE SpecialMul(x, y)

\* n decimal digits of r / b, for 0 <= r < b
RECURSIVE DivDigits(_, _, _)
DivDigits(r, b, n) ==
    IF n = 0 THEN 0
    ELSE ((r * 10) \div b) * 10^(n - 1) + DivDigits((r * 10) % b, b, n - 1)

\* a / b as a real, for a >= 0 and b > 0, rounded to nearest
RECURSIVE DivFPMag(_, _)
DivFPMag(a, b) ==
    IF b > 2 * 10^8 THEN DivFPMag(a \div 10, b \div 10)
    ELSE IF a \div b > FiniteMax \div FP THEN PosInf
    ELSE (a \div b) * FP + (DivDigits(a % b, b, 5) + 5) \div 10

\* x / y of two values of the same unit, as a real
DivFP(x, y) ==
    IF x = NaN \/ y = NaN THEN NaN
    ELSE IF ~IsFinite(x)
         THEN (IF ~IsFinite(y) THEN NaN ELSE IF y >= 0 THEN x ELSE XNeg(x))
    ELSE IF ~IsFinite(y) THEN 0
    ELSE IF y = 0
         THEN (IF x = 0 THEN NaN ELSE IF x > 0 THEN PosInf ELSE NegInf)
    ELSE WithSign(x, y, DivFPMag(Abs(x), Abs(y)))

\* numpy.sqrt: Newton's iteration from above
RECURSIVE SqrtIter(_, _)
SqrtIter(x, y) ==
    LET z == (y + DivFPMag(x, y)) \div 2
    IN  IF z >= y THEN y ELSE SqrtIter(x, z)
np_sqrt(x) ==
    IF x = NaN \/ x < 0 THEN NaN
    ELSE IF x = PosInf THEN PosInf
    ELSE IF x = 0 THEN 0
    ELSE SqrtIter(x, Max(x, FP))

\* numpy.log: ln x = 2 atanh((x-1)/(x+1)) after halving or doubling x into
\* [1/2, 2] (ln 2 = 0.6931); log(0) = -inf and log(x < 0) = nan, with a warning and no raise
RECURSIVE LnSeries(_, _, _, _)
LnSeries(z, term, k, acc) ==
    IF term = 0 \/ k > 15 THEN acc
    ELSE LnSeries(z, MulFP(MulFP(term, z), z), k + 2,
                  acc + Sgn(term) * (Abs(term) \div k))
RECURSIVE np_log(_)
np_log(x) ==
    IF x = NaN \/ x < 0 THEN NaN
    ELSE IF x = 0 THEN NegInf
    ELSE IF x = PosInf THEN PosInf
    ELSE IF x > 2 * FP THEN np_log((x + 1) \div 2) + 6931
    ELSE IF x < FP \div 2 THEN np_log(x * 2) - 6931
    ELSE LET z == DivFP(x - FP, x + FP) IN 2 * LnSeries(z, z, 1, 0)

\* numpy.exp: Taylor series on the fractional part, times e = 2.7183 per unit
RECURSIVE ExpTaylor(_, _, _, _)
ExpTaylor(f, term, k, acc) ==
    IF term = 0 \/ k > 14 THEN acc
    ELSE LET t == MulFP(term, f) \div k IN ExpTaylor(f, t, k + 1, acc + t)
RECURSIVE ExpPos(_)
ExpPos(y) ==
    IF y >= FP THEN MulFP(ExpPos(y - FP), 27183)
    ELSE ExpTaylor(y, FP, 1, FP)
np_exp(x) ==
    IF x = NaN THEN NaN
    ELSE IF x = PosInf THEN PosInf
    ELSE IF x = NegInf THEN 0
    ELSE IF x >= 0 THEN (IF x <= 12 * FP THEN ExpPos(x) ELSE PosInf)
    ELSE IF x < 0 - 10 * FP THEN 0
    ELSE DivFP(FP, ExpPos(0 - x))

\* scipy.stats.norm.pdf: exp(-x^2/2) / sqrt(2 pi), 1 / sqrt(2 pi) = 0.3989
norm_pdf(x) ==
    IF x = NaN THEN NaN
    ELSE IF ~IsFinite(x) \/ Abs(x) > 6 * FP THEN 0
    ELSE MulFP(3989, np_exp(0 - (MulFP(x, x) \div 2)))

\* scipy.stats.norm.cdf: for x >= 0 the polynomial approximation
\* 1 - pdf(x) (b1 t + ... + b5 t^5), t = 1 / (1 + p x), and
\* cdf(-x) = 1 - cdf(x)
CdfPoly == <<3194, 0 - 3566, 17815, 0 - 18213, 13303>>
RECURSIVE Horner(_, _, _)
Horner(t, k, acc) ==
    IF k = 0 THEN acc ELSE Horner(t, k - 1, MulFP(acc + CdfPoly[k], t))
CdfPos(x) ==
    IF x = 0 THEN FP \div 2 ELSE
    LET t == DivFP(FP, FP + MulFP(2316, x))
    IN  Min(FP, Max(FP \div 2, FP - MulFP(norm_pdf(x), Horner(t, 5, 0))))
norm_cdf(x) ==
    IF x = NaN THEN NaN
    ELSE IF x = PosInf \/ (x # NegInf /\ x > 6 * FP) THEN FP
    ELSE IF x = NegInf \/ x < 0 - 6 * FP THEN 0
    ELSE IF x >= 0 THEN CdfPos(x) ELSE FP - CdfPos(0 - x)

\* builtin sum over a generator: f is a sequence of terms
RECURSIVE sum(_, _)
sum(f, n) == IF n = 0 THEN 0 ELSE sum(f, n - 1) + f[n]

(***************************************************************************)
(* Bounds of the model                                                     *)
(***************************************************************************)
MaxOi == 2

\* strikes a snapshot may list (index points)
StrikeSet == {19000, 19500, 20000}
\* open interest of one side of one row; NaN is a missing value
OiValues == (0 .. MaxOi) \cup {NaN}
LotSizes == {50, 75}

NoArgs == [none |-> TRUE]
NoRet == [status |-> "none"]
NoChain == <<>>
NoLoc == [none |-> TRUE]

(***************************************************************************)
(* MaxPainCalculator                                                       *)
(***************************************************************************)
\* snapshots for the max-pain engine: any order of rows, strikes unique
PainRows == [strike : StrikeSet, call_oi : OiValues, put_oi : OiValues]
PainChains ==
    UNION {
        {c \in [1 .. n -> PainRows] :
            \A a, b \in 1 .. n : a # b => c[a].strike # c[b].strike}
        : n \in 0 .. Cardinality(StrikeSet)}

\* Series.idxmin(): the label of the first occurrence of the minimum
idxmin_first_max(col) ==
    CHOOSE a \in DOMAIN col :
        /\ \A b \in DOMAIN col : col[b] <= col[a]
        /\ \A b \in DOMAIN col : b < a => col[b] < col[a]
idxmin(col) ==
    CHOOSE a \in DOMAIN col :
        /\ \A b \in DOMAIN col : col[a] <= col[b]
        /\ \A b \in DOMAIN col : b < a => col[b] > col[a]

\* the loss of call writers at one settlement 
call_loss_swapped(settlement, strikes, call_oi, lot) ==
    sum([k \in DOMAIN strikes |->
            IF settlement < strikes[k]
            THEN (strikes[k] - settlement) * call_oi[k] * lot ELSE 0],
        Len(strikes))
call_loss_at(settlement, strikes, call_oi, lot) ==
    sum([k \in DOMAIN strikes |->
            IF settlement > strikes[k]
            THEN (settlement - strikes[k]) * call_oi[k] * lot ELSE 0],
        Len(strikes))

\* the loss of put writers at one settlement 
put_loss_at(settlement, strikes, put_oi, lot) ==
    sum([k \in DOMAIN strikes |->
            IF settlement < strikes[k]
            THEN (strikes[k] - settlement) * put_oi[k] * lot ELSE 0],
        Len(strikes))

\* the pain curve: one row per settlement, in the order of the chain's rows
pain_data(chain, lot) ==
    LET strikes == [k \in DOMAIN chain |-> chain[k].strike]
        call_oi == [k \in DOMAIN chain |-> fillna(chain[k].call_oi, 0)]
        put_oi  == [k \in DOMAIN chain |-> fillna(chain[k].put_oi, 0)]
    IN  [s \in DOMAIN chain |->
            LET call_loss == call_loss_at(strikes[s], strikes, call_oi, lot)
                put_loss  == put_loss_at(strikes[s], strikes, put_oi, lot)
            IN  [strike |-> strikes[s],
                 call_loss |-> call_loss,
                 put_loss |-> put_loss,
                 total_pain |-> call_loss + put_loss]]

\* calculate_max_pain: an empty chain gives a frame without columns, and
\* pain_df["total_pain"] raises KeyError
calculate_max_pain(chain, lot) ==
    LET pain_df == pain_data(chain, lot)
    IN  IF Len(pain_df) = 0
        THEN [status |-> "KeyError"]
        ELSE LET max_pain_idx ==
                    idxmin([k \in DOMAIN pain_df |-> pain_df[k].total_pain])
             IN  [status |-> "ok",
                  max_pain_strike |-> pain_df[max_pain_idx].strike,
                  pain_df |-> pain_df]

InitMaxPain ==
    /\ pc = "start"
    /\ option_chain \in PainChains
    /\ args \in [lot_size : LotSizes]
    /\ ret = NoRet
    /\ loc = NoLoc

CalculateMaxPain ==
    /\ pc = "start"
    /\ ret' = calculate_max_pain(option_chain, args.lot_size)
    /\ pc' = "done"
    /\ UNCHANGED <<option_chain, args, loc>>

NextMaxPain == CalculateMaxPain

SpecMaxPain == InitMaxPain /\ [][NextMaxPain]_vars

\* ---- properties of calculate_max_pain ----

MaxPainReturned == pc = "done" /\ ret.status = "ok"
ListedStrikes == {option_chain[k].strike : k \in DOMAIN option_chain}

\* C1: for a non-empty chain max_pain returns; the strike it returns is a
\* listed strike of the chain, and the total_pain of that strike's row of the
\* returned curve is <= the total_pain of every row of the curve.
C1_MaxPainIsListedMinimum ==
    (pc = "done" /\ Len(option_chain) > 0) =>
        /\ ret.status = "ok"
        /\ ret.max_pain_strike \in ListedStrikes
        /\ \E a \in DOMAIN ret.pain_df :
            /\ ret.pain_df[a].strike = ret.max_pain_strike
            /\ \A b \in DOMAIN ret.pain_df :
                ret.pain_df[a].total_pain <= ret.pain_df[b].total_pain

\* a chain of three rows whose curve has a strict minimum that is not the
\* first row
C1_Witness ==
    /\ MaxPainReturned
    /\ Len(option_chain) = 3
    /\ ret.max_pain_strike # option_chain[1].strike
    /\ \E b \in DOMAIN ret.pain_df :
        ret.pain_df[b].total_pain >
            ret.pain_df[CHOOSE a \in DOMAIN ret.pain_df :
                ret.pain_df[a].strike = ret.max_pain_strike].total_pain

\* the sum of f over the finite set S
RECURSIVE SumOver(_, _)
SumOver(S, f) ==
    IF S = {} THEN 0
    ELSE LET x == CHOOSE x \in S : TRUE IN f[x] + SumOver(S \ {x}, f)

\* the open interest the snapshot lists at strike k, a missing value as 0
RowAt(k) == option_chain[CHOOSE a \in DOMAIN option_chain : option_chain[a].strike = k]
CallOiAt(k) == IF RowAt(k).call_oi = NaN THEN 0 ELSE RowAt(k).call_oi
PutOiAt(k) == IF RowAt(k).put_oi = NaN THEN 0 ELSE RowAt(k).put_oi

\* C2: the pain curve has one row per chain row, and its row for settlement S
\* has call_loss = sum over listed k < S of (S-k)*call_oi(k)*lot_size,
\* put_loss = sum over listed k > S of (k-S)*put_oi(k)*lot_size and
\* total_pain = call_loss + put_loss, a missing OI counting as 0; all three
\* are >= 0, and put_loss is 0 everywhere when put OI is 0 everywhere.
C2_PainCurveFormula ==
    MaxPainReturned =>
        /\ Len(ret.pain_df) = Len(option_chain)
        /\ \A s \in DOMAIN option_chain :
            LET S == option_chain[s].strike
                row == ret.pain_df[s]
            IN  /\ row.strike = S
                /\ row.call_loss =
                    SumOver({k \in ListedStrikes : k < S},
                            [k \in ListedStrikes |->
                                (S - k) * CallOiAt(k) * args.lot_size])
                /\ row.put_loss =
                    SumOver({k \in ListedStrikes : k > S},
                            [k \in ListedStrikes |->
                                (k - S) * PutOiAt(k) * args.lot_size])
                /\ row.total_pain = row.call_loss + row.put_loss
                /\ row.call_loss >= 0 /\ row.put_loss >= 0 /\ row.total_pain >= 0
        /\ (\A k \in ListedStrikes : PutOiAt(k) = 0) =>
                \A s \in DOMAIN ret.pain_df : ret.pain_df[s].put_loss = 0

\* a curve with a row that has both losses, from a chain with a missing OI
C2_Witness ==
    /\ MaxPainReturned
    /\ \E s \in DOMAIN ret.pain_df :
        ret.pain_df[s].call_loss > 0 /\ ret.pain_df[s].put_loss > 0
    /\ \E a \in DOMAIN option_chain : option_chain[a].call_oi = NaN
    /\ \E a \in DOMAIN option_chain : option_chain[a].put_oi = NaN

\* the rows of the returned curve whose total_pain is the minimum
MinimalPainRows ==
    {a \in DOMAIN ret.pain_df :
        \A b \in DOMAIN ret.pain_df :
            ret.pain_df[a].total_pain <= ret.pain_df[b].total_pain}

\* C17: when several listed strikes share the minimum total_pain, max_pain
\* returns the lowest of them, whatever the order of the rows of the chain.
C17_TieGoesToLowestStrike ==
    MaxPainReturned =>
        \A a \in MinimalPainRows :
            ret.max_pain_strike <= ret.pain_df[a].strike

\* C17, as the code has it: the tie goes to the minimal row that comes first
\* in the order of the chain's rows, the lowest minimal strike when the chain
\* is listed in ascending order.
C17_TieGoesToFirstRow ==
    MaxPainReturned =>
        /\ \E a \in MinimalPainRows :
            /\ ret.pain_df[a].strike = ret.max_pain_strike
            /\ \A b \in MinimalPainRows : a <= b
        /\ (\A a, b \in DOMAIN option_chain :
                a < b => option_chain[a].strike < option_chain[b].strike)
            => \A a \in MinimalPainRows :
                    ret.max_pain_strike <= ret.pain_df[a].strike

\* two strikes with open interest tie for the minimum, a third does not
C17_Witness ==
    /\ MaxPainReturned
    /\ Len(option_chain) = 3
    /\ Cardinality(MinimalPainRows) = 2
    /\ \E a \in DOMAIN ret.pain_df : ret.pain_df[a].total_pain > 0
    /\ \E a \in MinimalPainRows : ret.pain_df[a].strike < ret.max_pain_strike

(***************************************************************************)
(* GreeksCalculator.  spot and strike are index points (plain numbers);    *)
(* time_to_expiry, volatility, the rate, d1, d2, prices and Greeks are     *)
(* reals.  The scalar arguments are Python floats, so spot / strike with   *)
(* strike = 0 raises ZeroDivisionError, while every later operation is a   *)
(* numpy operation that warns and yields inf or nan.                       *)
(***************************************************************************)
risk_free_rate == 700

OptionTypes == {"call", "put", "straddle"}

\* x / n for a plain number n > 0
DivInt(x, n) ==
    IF IsFinite(x) THEN Sgn(x) * ((Abs(x) + n \div 2) \div n) ELSE x

\* d1 and d2 from the numerator and the denominator of d1
d1_d2_of(d1, den) == [status |-> "ok", d1 |-> d1, d2 |-> XSub(d1, den)]
d1_d2_from(num, den) == d1_d2_of(DivFP(num, den), den)
calculate_d1_d2(spot, strike, time_to_expiry, volatility) ==
    IF time_to_expiry <= 0 THEN [status |-> "ValueError"]
    ELSE IF strike = 0 THEN [status |-> "ZeroDivisionError"]
    ELSE d1_d2_from(
             XAdd(np_log(DivFP(spot, strike)),
                  MulFP(XAdd(risk_free_rate,
                             MulFP(FP \div 2, MulFP(volatility, volatility))),
                        time_to_expiry)),
             MulFP(volatility, np_sqrt(time_to_expiry)))

\* strike * np.exp(-self.risk_free_rate * time_to_expiry)
discounted(strike, time_to_expiry) ==
    IMul(strike, np_exp(XNeg(MulFP(risk_free_rate, time_to_expiry))))

\* an operator's arguments are evaluated once, a LET definition at every
\* use: the bodies below take the values they share as arguments

\* the call value from d1 and d2, or the error calculate_d1_d2 raised
call_value(d, spot, strike, time_to_expiry) ==
    IF d.status # "ok" THEN d
    ELSE [status |-> "ok",
          value |-> XSub(IMul(spot, norm_cdf(d.d1)),
                         MulFP(discounted(strike, time_to_expiry),
                               norm_cdf(d.d2)))]
call_price(spot, strike, time_to_expiry, volatility) ==
    call_value(calculate_d1_d2(spot, strike, time_to_expiry, volatility),
               spot, strike, time_to_expiry)

\* the put value from d1 and d2, or the error calculate_d1_d2 raised
put_value_same_tail(d, spot, strike, time_to_expiry) ==
    IF d.status # "ok" THEN d
    ELSE [status |-> "ok",
          value |-> XSub(MulFP(discounted(strike, time_to_expiry),
                               norm_cdf(d.d2)),
                         IMul(spot, norm_cdf(XNeg(d.d1))))]
put_value(d, spot, strike, time_to_expiry) ==
    IF d.status # "ok" THEN d
    ELSE [status |-> "ok",
          value |-> XSub(MulFP(discounted(strike, time_to_expiry),
                               norm_cdf(XNeg(d.d2))),
                         IMul(spot, norm_cdf(XNeg(d.d1))))]
put_price(spot, strike, time_to_expiry, volatility) ==
    put_value(calculate_d1_d2(spot, strike, time_to_expiry, volatility),
              spot, strike, time_to_expiry)

\* the delta of calculate_greeks
greeks_delta_unshifted(d1, option_type) == norm_cdf(d1)
greeks_delta(d1, option_type) ==
    IF option_type = "call" THEN norm_cdf(d1) ELSE XSub(norm_cdf(d1), FP)

\* the gamma of calculate_greeks (the same expression for call and put)
greeks_gamma(spot, time_to_expiry, volatility, d1) ==
    DivFP(norm_pdf(d1),
          IMul(spot, MulFP(volatility, np_sqrt(time_to_expiry))))

\* the daily theta of calculate_greeks
greeks_theta(spot, strike, time_to_expiry, volatility, d, option_type) ==
    IF option_type = "call"
    THEN DivInt(XSub(DivFP(MulFP(IMul(XNeg(spot), norm_pdf(d.d1)), volatility),
                           IMul(2, np_sqrt(time_to_expiry))),
                     MulFP(MulFP(risk_free_rate,
                                 discounted(strike, time_to_expiry)),
                           norm_cdf(d.d2))), 365)
    ELSE DivInt(XAdd(DivFP(MulFP(IMul(XNeg(spot), norm_pdf(d.d1)), volatility),
                           IMul(2, np_sqrt(time_to_expiry))),
                     MulFP(MulFP(risk_free_rate,
                                 discounted(strike, time_to_expiry)),
                           norm_cdf(XNeg(d.d2)))), 365)

\* the vega of calculate_greeks, per 1% of volatility
greeks_vega(spot, time_to_expiry, d1) ==
    DivInt(MulFP(IMul(spot, norm_pdf(d1)), np_sqrt(time_to_expiry)), 100)

\* the rho of calculate_greeks, per 1% of rate
greeks_rho(strike, time_to_expiry, d2, option_type) ==
    IF option_type = "call"
    THEN DivInt(MulFP(MulFP(IMul(strike, time_to_expiry),
                            np_exp(XNeg(MulFP(risk_free_rate, time_to_expiry)))),
                      norm_cdf(d2)), 100)
    ELSE DivInt(MulFP(MulFP(IMul(XNeg(strike), time_to_expiry),
                            np_exp(XNeg(MulFP(risk_free_rate, time_to_expiry)))),
                      norm_cdf(XNeg(d2))), 100)

\* the GreeksResult from d1 and d2, or the error calculate_d1_d2 raised
greeks_result(d, spot, strike, time_to_expiry, volatility, option_type) ==
    IF d.status # "ok" THEN d
    ELSE [status |-> "ok",
          price |-> IF option_type = "call"
                    THEN call_price(spot, strike, time_to_expiry,
                                    volatility).value
                    ELSE put_price(spot, strike, time_to_expiry,
                                   volatility).value,
          delta |-> greeks_delta(d.d1, option_type),
          gamma |-> greeks_gamma(spot, time_to_expiry, volatility, d.d1),
          theta |-> greeks_theta(spot, strike, time_to_expiry, volatility,
                                 d, option_type),
          vega |-> greeks_vega(spot, time_to_expiry, d.d1),
          rho |-> greeks_rho(strike, time_to_expiry, d.d2, option_type)]
calculate_greeks(spot, strike, time_to_expiry, volatility, option_type) ==
    IF option_type \notin {"call", "put"} THEN [status |-> "ValueError"]
    ELSE greeks_result(
             calculate_d1_d2(spot, strike, time_to_expiry, volatility),
             spot, strike, time_to_expiry, volatility, option_type)

\* arguments of the pricing calls: valid values and the non-positive ones
GreekSpots == {0 - 100, 0, 100, 19500}
GreekStrikes == {0 - 100, 0, 80, 100, 120, 19500}
GreekTimes == {0 - 1000, 0, 192, 2500, 10000}
GreekVols == {0 - 2000, 0, 2000, 6000}

\* the caller prices the call and the put and asks for the Greeks of each
\* option type, in any order, each once; ret keeps every result
InitGreeks ==
    /\ pc = "start"
    /\ option_chain = NoChain
    /\ args \in [spot : GreekSpots, strike : GreekStrikes,
                 time_to_expiry : GreekTimes, volatility : GreekVols]
    /\ ret = [call_price |-> NoRet, put_price |-> NoRet,
              greeks |-> [t \in OptionTypes |-> NoRet]]
    /\ loc = NoLoc

CallPrice ==
    /\ pc = "start"
    /\ ret.call_price = NoRet
    /\ ret' = [ret EXCEPT !.call_price =
                  call_price(args.spot, args.strike, args.time_to_expiry,
                             args.volatility)]
    /\ UNCHANGED <<pc, option_chain, args, loc>>

PutPrice ==
    /\ pc = "start"
    /\ ret.put_price = NoRet
    /\ ret' = [ret EXCEPT !.put_price =
                  put_price(args.spot, args.strike, args.time_to_expiry,
                            args.volatility)]
    /\ UNCHANGED <<pc, option_chain, args, loc>>

CalculateGreeks ==
    /\ pc = "start"
    /\ \E option_type \in OptionTypes :
        /\ ret.greeks[option_type] = NoRet
        /\ ret' = [ret EXCEPT !.greeks[option_type] =
                      calculate_greeks(args.spot, args.strike,
                                       args.time_to_expiry, args.volatility,
                                       option_type)]
    /\ UNCHANGED <<pc, option_chain, args, loc>>

NextGreeks == CallPrice \/ PutPrice \/ CalculateGreeks

SpecGreeks == InitGreeks /\ [][NextGreeks]_vars

\* ---- properties of the pricing calls and the Greeks ----

ValidGreekArgs ==
    /\ args.spot > 0
    /\ args.strike > 0
    /\ args.time_to_expiry > 0
    /\ args.volatility > 0

\* the results the caller holds so far
GreekResults ==
    {ret.call_price, ret.put_price, ret.greeks["call"], ret.greeks["put"]}
        \ {NoRet}

\* C6: price and greeks fail with the invalid-input error (ValueError),
\* returning no value, whenever time_to_expiry <= 0, volatility <= 0,
\* spot <= 0 or strike <= 0.
C6_NonPositiveInputsRaise ==
    ~ValidGreekArgs => \A r \in GreekResults : r.status = "ValueError"

\* C8: for valid inputs call_price - put_price differs from
\* spot - strike * e^(-rT) by less than 1e-2.
C8_PutCallParity ==
    (ValidGreekArgs /\ ret.call_price # NoRet /\ ret.put_price # NoRet) =>
        /\ ret.call_price.status = "ok"
        /\ ret.put_price.status = "ok"
        /\ IsFinite(ret.call_price.value)
        /\ IsFinite(ret.put_price.value)
        /\ Abs((ret.call_price.value - ret.put_price.value)
               - (args.spot * FP - discounted(args.strike, args.time_to_expiry)))
             < FP \div 100

\* both prices of an option away from the money, each of them positive
C8_Witness ==
    /\ ValidGreekArgs
    /\ ret.call_price # NoRet /\ ret.put_price # NoRet
    /\ args.spot # args.strike
    /\ ret.call_price.value > FP
    /\ ret.put_price.value > FP

\* C10: for valid inputs the call delta is in [0, 1], the put delta in
\* [-1, 0], gamma >= 0 and vega >= 0 for both option types, and the gamma of
\* the call equals the gamma of the put at the same inputs.
C10_GreeksBounds ==
    ValidGreekArgs =>
        /\ \A t \in {"call", "put"} :
            ret.greeks[t] # NoRet =>
                /\ ret.greeks[t].status = "ok"
                /\ IsFinite(ret.greeks[t].delta)
                /\ IsFinite(ret.greeks[t].gamma) /\ ret.greeks[t].gamma >= 0
                /\ IsFinite(ret.greeks[t].vega) /\ ret.greeks[t].vega >= 0
        /\ ret.greeks["call"] # NoRet =>
                ret.greeks["call"].delta >= 0 /\ ret.greeks["call"].delta <= FP
        /\ ret.greeks["put"] # NoRet =>
                ret.greeks["put"].delta >= 0 - FP /\ ret.greeks["put"].delta <= 0
        /\ (ret.greeks["call"] # NoRet /\ ret.greeks["put"] # NoRet) =>
                ret.greeks["call"].gamma = ret.greeks["put"].gamma

\* the Greeks of both option types at the same valid inputs, the deltas
\* strictly inside their ranges and gamma and vega positive
C10_Witness ==
    /\ ValidGreekArgs
    /\ ret.greeks["call"] # NoRet /\ ret.greeks["put"] # NoRet
    /\ ret.greeks["call"].delta > 0 /\ ret.greeks["call"].delta < FP
    /\ ret.greeks["put"].delta < 0 /\ ret.greeks["put"].delta > 0 - FP
    /\ ret.greeks["call"].gamma > 0
    /\ ret.greeks["put"].vega > 0

(***************************************************************************)
(* GammaExposureCalculator.  Gammas are reals; spot, open interest, lot    *)
(* size and the exposures are plain numbers.                               *)
(***************************************************************************)
GEX_MULTIPLIER == 100

\* calculate_strike_gex.  The code multiplies from left to right,
\* gamma * oi * lot_size * spot_squared * GEX_MULTIPLIER; here
\* spot_squared * GEX_MULTIPLIER is taken first, which keeps every
\* intermediate value below FiniteMax and changes no product of floats
\* beyond its rounding.  The strike argument is not read.
calculate_strike_gex_unsigned(spot, strike, call_oi, put_oi, call_gamma, put_gamma, lot_size) ==
    LET spot_squared == IMul(spot, spot)
        scale == MulFP(spot_squared, GEX_MULTIPLIER)
        call_gex == MulFP(IMul(IMul(call_gamma, call_oi), lot_size), scale)
        put_gex == MulFP(IMul(IMul(put_gamma, put_oi), lot_size), scale)
    IN  [call_gex |-> call_gex, put_gex |-> put_gex,
         net_gex |-> XAdd(call_gex, put_gex)]
calculate_strike_gex_by_strike(spot, strike, call_oi, put_oi, call_gamma, put_gamma, lot_size) ==
    LET spot_squared == IMul(strike, strike)
        scale == MulFP(spot_squared, GEX_MULTIPLIER)
        call_gex == MulFP(IMul(IMul(call_gamma, call_oi), lot_size), scale)
        put_gex == MulFP(IMul(IMul(IMul(0 - 1, put_gamma), put_oi), lot_size),
                         scale)
    IN  [call_gex |-> call_gex, put_gex |-> put_gex,
         net_gex |-> XAdd(call_gex, put_gex)]
calculate_strike_gex(spot, strike, call_oi, put_oi, call_gamma, put_gamma, lot_size) ==
    LET spot_squared == IMul(spot, spot)
        scale == MulFP(spot_squared, GEX_MULTIPLIER)
        call_gex == MulFP(IMul(IMul(call_gamma, call_oi), lot_size), scale)
        put_gex == MulFP(IMul(IMul(IMul(0 - 1, put_gamma), put_oi), lot_size),
                         scale)
    IN  [call_gex |-> call_gex, put_gex |-> put_gex,
         net_gex |-> XAdd(call_gex, put_gex)]

\* the gamma chain_gex uses for one side of one row: calculate_greeks when
\* the IV is not missing and > 0, else 0
side_gamma_any_iv(spot, strike, time_to_expiry, iv, option_type) ==
    calculate_greeks(spot, strike, time_to_expiry, iv, option_type)
side_gamma(spot, strike, time_to_expiry, iv, option_type) ==
    IF notna(iv) /\ iv > 0
    THEN calculate_greeks(spot, strike, time_to_expiry, iv, option_type)
    ELSE [status |-> "ok", gamma |-> 0]

\* Series.cumsum(): missing values are skipped and stay missing
RECURSIVE cumsum(_, _)
cumsum(col, n) ==
    IF n = 0 THEN <<>>
    ELSE LET before == cumsum(col, n - 1)
             filled == [k \in 1 .. n |-> fillna(col[k], 0)]
             RECURSIVE total(_)
             total(k) == IF k = 0 THEN 0 ELSE XAdd(total(k - 1), filled[k])
         IN  Append(before, IF col[n] = NaN THEN NaN ELSE total(n))

\* the result row of one chain row (the body of the loop of
\* calculate_chain_gex), or the error calculate_greeks raised
gex_result(row, call_gamma, put_gamma, gex) ==
    [status |-> "ok",
     strike |-> row.strike,
     call_oi |-> row.call_oi,
     put_oi |-> row.put_oi,
     call_gamma |-> call_gamma,
     put_gamma |-> put_gamma,
     call_gex |-> gex.call_gex,
     put_gex |-> gex.put_gex,
     net_gex |-> gex.net_gex]
gex_row_of(row, spot, lot_size, call_greeks, put_greeks) ==
    IF call_greeks.status # "ok" THEN [status |-> call_greeks.status]
    ELSE IF put_greeks.status # "ok" THEN [status |-> put_greeks.status]
    ELSE gex_result(row, call_greeks.gamma, put_greeks.gamma,
                    calculate_strike_gex(spot, row.strike, row.call_oi,
                                         row.put_oi, call_greeks.gamma,
                                         put_greeks.gamma, lot_size))
gex_row(row, spot, time_to_expiry, lot_size) ==
    gex_row_of(row, spot, lot_size,
               side_gamma(spot, row.strike, time_to_expiry, row.call_iv, "call"),
               side_gamma(spot, row.strike, time_to_expiry, row.put_iv, "put"))

\* the frame built from the loop's results, with its cumulative column
gex_frame(results, cumulative_gex) ==
    [status |-> "ok",
     gex_df |-> [k \in DOMAIN results |->
         [strike |-> results[k].strike,
          call_oi |-> results[k].call_oi,
          put_oi |-> results[k].put_oi,
          call_gamma |-> results[k].call_gamma,
          put_gamma |-> results[k].put_gamma,
          call_gex |-> results[k].call_gex,
          put_gex |-> results[k].put_gex,
          net_gex |-> results[k].net_gex,
          cumulative_gex |-> cumulative_gex[k]]]]
chain_gex_of(results) ==
    IF \E k \in DOMAIN results : results[k].status # "ok"
    THEN [status |-> results[CHOOSE k \in DOMAIN results :
                        /\ results[k].status # "ok"
                        /\ \A j \in 1 .. k - 1 : results[j].status = "ok"].status]
    ELSE IF Len(results) = 0 THEN [status |-> "KeyError"]
    ELSE gex_frame(results,
                   cumsum([k \in DOMAIN results |-> results[k].net_gex],
                          Len(results)))

\* calculate_chain_gex: rows in the order of the chain; an empty chain gives
\* a frame without columns, and gex_df["net_gex"] raises KeyError
calculate_chain_gex(chain, spot, days_to_expiry, lot_size) ==
    chain_gex_of([k \in DOMAIN chain |->
                     gex_row(chain[k], spot, DivFP(days_to_expiry, 365),
                             lot_size)])

\* Series.idxmax() and Series.idxmin() on a column that may hold nan: the
\* label of the first occurrence of the extreme among the values present
present(col) == {k \in DOMAIN col : notna(col[k])}
idxmax(col) ==
    CHOOSE a \in present(col) :
        /\ \A b \in present(col) : col[b] <= col[a]
        /\ \A b \in present(col) : b < a => col[b] < col[a]
idxmin_present(col) ==
    CHOOSE a \in present(col) :
        /\ \A b \in present(col) : col[a] <= col[b]
        /\ \A b \in present(col) : b < a => col[b] > col[a]

\* Series.sum(): missing values are skipped, an empty selection sums to 0
RECURSIVE series_sum(_, _)
series_sum(col, n) ==
    IF n = 0 THEN 0 ELSE XAdd(series_sum(col, n - 1), fillna(col[n], 0))

\* the test of the loop of find_gex_levels on rows i and i + 1
crosses_zero_or_touches(gex1, gex2) == IMul(gex1, gex2) <= 0
crosses_zero(gex1, gex2) == IMul(gex1, gex2) < 0

\* the linear interpolation of the crossing, as a real
flip_level(strike1, strike2, gex1, gex2) ==
    XAdd(IMul(strike1, FP),
         IMul(strike2 - strike1,
              DivFP(Abs(gex1), XAdd(Abs(gex1), Abs(gex2)))))

\* zero_crossings after the first n passes of the loop
RECURSIVE zero_crossings(_, _)
zero_crossings(gex_df, n) ==
    IF n = 0 THEN <<>>
    ELSE IF crosses_zero(gex_df[n].net_gex, gex_df[n + 1].net_gex)
    THEN Append(zero_crossings(gex_df, n - 1),
                flip_level(gex_df[n].strike, gex_df[n + 1].strike,
                           gex_df[n].net_gex, gex_df[n + 1].net_gex))
    ELSE zero_crossings(gex_df, n - 1)

\* the net_gex column restricted to the rows whose strike passes a filter
net_gex_where(gex_df, keep) ==
    [k \in DOMAIN gex_df |-> IF keep[k] THEN gex_df[k].net_gex ELSE 0]
above_spot_or_at(gex_df, spot) ==
    series_sum(net_gex_where(gex_df, [k \in DOMAIN gex_df |->
                                         gex_df[k].strike >= spot]),
               Len(gex_df))
above_spot(gex_df, spot) ==
    series_sum(net_gex_where(gex_df, [k \in DOMAIN gex_df |->
                                         gex_df[k].strike > spot]),
               Len(gex_df))
below_spot(gex_df, spot) ==
    series_sum(net_gex_where(gex_df, [k \in DOMAIN gex_df |->
                                         gex_df[k].strike < spot]),
               Len(gex_df))

\* the regime and the bias read off total_gex (nan > 0 is false)
gex_regime_nonnegative(total_gex) ==
    IF notna(total_gex) /\ total_gex >= 0 THEN "positive" ELSE "negative"
gex_regime(total_gex) ==
    IF notna(total_gex) /\ total_gex > 0 THEN "positive" ELSE "negative"
trading_bias(total_gex) ==
    IF notna(total_gex) /\ total_gex > 0 THEN "mean_reverting" ELSE "trending"

\* the dictionary find_gex_levels returns
gex_levels_of(gex_df, spot, net_gex, total_gex) ==
    [status |-> "ok",
     gex_regime |-> gex_regime(total_gex),
     trading_bias |-> trading_bias(total_gex),
     total_gex |-> total_gex,
     gex_above_spot |-> above_spot(gex_df, spot),
     gex_below_spot |-> below_spot(gex_df, spot),
     flip_levels |-> zero_crossings(gex_df, Len(gex_df) - 1),
     max_positive_gex_strike |-> gex_df[idxmax(net_gex)].strike,
     max_negative_gex_strike |-> gex_df[idxmin_present(net_gex)].strike,
     spot |-> spot]

\* find_gex_levels: when no net_gex is present idxmax has no label to
\* return and the call raises (which exception depends on the pandas
\* release: the nan label is not in the index, or idxmax itself raises)
AllMissingErrors == {"KeyError", "ValueError"}
find_gex_levels_of(gex_df, spot, net_gex, all_missing_error) ==
    IF present(net_gex) = {} THEN [status |-> all_missing_error]
    ELSE gex_levels_of(gex_df, spot, net_gex,
                       series_sum(net_gex, Len(net_gex)))
find_gex_levels(gex_df, spot, all_missing_error) ==
    find_gex_levels_of(gex_df, spot,
                       [k \in DOMAIN gex_df |-> gex_df[k].net_gex],
                       all_missing_error)

\* arguments of calculate_strike_gex
GexSpots == {100, 19500}
GexArgStrikes == {19000, 19500}
GexArgOi == {0 - 1000, 0, 1000, 1500}
GexArgGammas == {0 - 10, 0, 10}

\* snapshots for calculate_chain_gex: any order of rows, strikes unique;
\* an IV is missing, zero, infinite or a volatility
GexStrikes == {19500, 20000}
IvValues == {NaN, 0, NegInf, PosInf, 2000}
GexOiPairs == {<<1000, 1500>>, <<0, 1000>>, <<NaN, 1000>>}
GexRows ==
    {[strike |-> k, call_oi |-> oi[1], put_oi |-> oi[2],
      call_iv |-> civ, put_iv |-> piv] :
        k \in GexStrikes, oi \in GexOiPairs, civ \in IvValues, piv \in IvValues}
GexChains ==
    UNION {
        {c \in [1 .. n -> GexRows] :
            \A a, b \in 1 .. n : a # b => c[a].strike # c[b].strike}
        : n \in 0 .. Cardinality(GexStrikes)}
DaysToExpiry == {0, 7}

\* snapshots of three strikes whose net exposures are of either sign or
\* zero: both IVs quoted, call OI above, below or equal to put OI
LevelOiPairs == {<<1500, 1000>>, <<1000, 1500>>, <<1000, 1000>>}
LevelRows ==
    {[strike |-> k, call_oi |-> oi[1], put_oi |-> oi[2],
      call_iv |-> 2000, put_iv |-> 2000] :
        k \in StrikeSet, oi \in LevelOiPairs}
LevelChains ==
    {c \in [1 .. Cardinality(StrikeSet) -> LevelRows] :
        \A a, b \in DOMAIN c : a # b => c[a].strike # c[b].strike}
\* the spot handed to find_gex_levels: a listed strike, or between two
LevelSpots == {19250, 19500}

InitStrikeGex ==
    /\ pc = "strike_gex"
    /\ option_chain = NoChain
    /\ args \in [spot : GexSpots, strike : GexArgStrikes,
                 call_oi : GexArgOi, put_oi : GexArgOi,
                 call_gamma : GexArgGammas, put_gamma : GexArgGammas,
                 lot_size : LotSizes]
    /\ ret = NoRet
    /\ loc = NoLoc

InitChainGex ==
    /\ pc = "chain_gex"
    /\ option_chain \in GexChains \cup LevelChains
    /\ args \in [spot : {19500}, days_to_expiry : DaysToExpiry, lot_size : {50}]
    /\ ret = NoRet
    /\ loc = NoLoc

InitGex == InitStrikeGex \/ InitChainGex

CalculateStrikeGex ==
    /\ pc = "strike_gex"
    /\ ret' = [status |-> "ok",
               gex |-> calculate_strike_gex(args.spot, args.strike,
                           args.call_oi, args.put_oi, args.call_gamma,
                           args.put_gamma, args.lot_size)]
    /\ pc' = "strike_gex_done"
    /\ UNCHANGED <<option_chain, args, loc>>

CalculateChainGex ==
    /\ pc = "chain_gex"
    /\ ret' = calculate_chain_gex(option_chain, args.spot,
                                  args.days_to_expiry, args.lot_size)
    /\ pc' = "chain_gex_done"
    /\ UNCHANGED <<option_chain, args, loc>>

\* find_gex_levels on the frame calculate_chain_gex returned
FindGexLevels ==
    /\ pc = "chain_gex_done"
    /\ ret.status = "ok"
    /\ \E spot \in LevelSpots, all_missing_error \in AllMissingErrors :
            loc' = find_gex_levels(ret.gex_df, spot, all_missing_error)
    /\ pc' = "gex_levels_done"
    /\ UNCHANGED <<option_chain, args, ret>>

NextGex == CalculateStrikeGex \/ CalculateChainGex \/ FindGexLevels

SpecGex == InitGex /\ [][NextGex]_vars

\* ---- properties of calculate_strike_gex and calculate_chain_gex ----

StrikeGexReturned == pc = "strike_gex_done"
ChainGexReturned == pc = "chain_gex_done" /\ ret.status = "ok"

NonNegative(x) == IsFinite(x) /\ x >= 0

\* call_gex >= 0, put_gex <= 0 and net_gex = call_gex + put_gex
SignConvention(gex) ==
    /\ IsFinite(gex.call_gex) /\ gex.call_gex >= 0
    /\ IsFinite(gex.put_gex) /\ gex.put_gex <= 0
    /\ gex.net_gex = gex.call_gex + gex.put_gex

\* C3: for gammas and open interests >= 0 and lot_size > 0 the result of
\* strike_gex has call_gex >= 0, put_gex <= 0 and net_gex = call_gex +
\* put_gex; the same holds for every row chain_gex returns (for the gammas
\* and open interests of that row).
C3_GexSignConvention ==
    /\ (/\ StrikeGexReturned
        /\ NonNegative(args.call_gamma) /\ NonNegative(args.put_gamma)
        /\ NonNegative(args.call_oi) /\ NonNegative(args.put_oi)
        /\ args.lot_size > 0)
            => SignConvention(ret.gex)
    /\ ChainGexReturned =>
            \A k \in DOMAIN ret.gex_df :
                (/\ NonNegative(ret.gex_df[k].call_gamma)
                 /\ NonNegative(ret.gex_df[k].put_gamma)
                 /\ NonNegative(ret.gex_df[k].call_oi)
                 /\ NonNegative(ret.gex_df[k].put_oi)
                 /\ args.lot_size > 0)
                    => SignConvention(ret.gex_df[k])

\* a chain of two rows with a row of positive call exposure and negative put
\* exposure, its gammas computed from the row's IVs
C3_Witness ==
    /\ ChainGexReturned
    /\ Len(ret.gex_df) = 2
    /\ \E k \in DOMAIN ret.gex_df :
        /\ NonNegative(ret.gex_df[k].call_gamma)
        /\ NonNegative(ret.gex_df[k].put_gamma)
        /\ ret.gex_df[k].call_gex > 0
        /\ ret.gex_df[k].put_gex < 0
        /\ ret.gex_df[k].net_gex # 0

\* C4: call_gex = call_gamma*call_oi*lot_size*spot^2*0.01 and put_gex =
\* -put_gamma*put_oi*lot_size*spot^2*0.01, whatever the strike argument; for
\* spot=19500, call_oi=1000, put_oi=1500, gammas 0.001 and lot_size=50 the
\* result is 190,125,000, -285,187,500 and -95,062,500.  (A gamma g is held
\* as g * FP; the products are compared where they are whole numbers.)
C4_StrikeGexFormula ==
    StrikeGexReturned =>
        LET spot2_hundredth == (args.spot * args.spot) \div 100
            call_units == args.call_gamma * args.call_oi * args.lot_size
            put_units == args.put_gamma * args.put_oi * args.lot_size
        IN  /\ (args.spot * args.spot) % 100 = 0
            /\ call_units % FP = 0 =>
                    ret.gex.call_gex = (call_units \div FP) * spot2_hundredth
            /\ put_units % FP = 0 =>
                    ret.gex.put_gex = 0 - (put_units \div FP) * spot2_hundredth
            /\ ret.gex.net_gex = ret.gex.call_gex + ret.gex.put_gex
            /\ (/\ args.spot = 19500
                /\ args.call_oi = 1000 /\ args.put_oi = 1500
                /\ args.call_gamma = 10 /\ args.put_gamma = 10
                /\ args.lot_size = 50)
                    => /\ ret.gex.call_gex = 190125000
                       /\ ret.gex.put_gex = 0 - 285187500
                       /\ ret.gex.net_gex = 0 - 95062500

\* the concrete scenario, called with a strike other than the spot
C4_Witness ==
    /\ StrikeGexReturned
    /\ args.spot = 19500 /\ args.strike = 19000
    /\ args.call_oi = 1000 /\ args.put_oi = 1500
    /\ args.call_gamma = 10 /\ args.put_gamma = 10
    /\ args.lot_size = 50
    /\ ret.gex.net_gex = 0 - 95062500

\* an IV that is missing, zero or not finite
BadIv(iv) == iv = NaN \/ iv = 0 \/ ~IsFinite(iv)

\* the gamma of one side of a row, computed from that row alone
OwnGamma(row, option_type, iv) ==
    IF BadIv(iv) THEN 0
    ELSE calculate_greeks(args.spot, row.strike,
                          DivFP(args.days_to_expiry, 365), iv,
                          option_type).gamma

ChainGexCalled ==
    /\ pc = "chain_gex_done"
    /\ Len(option_chain) > 0
    /\ args.spot > 0
    /\ args.days_to_expiry > 0

\* C5: with spot > 0 and days_to_expiry > 0 chain_gex does not fail and
\* returns one row per chain row; a side whose IV is missing, zero or
\* non-finite has gamma 0 and exposure 0, and every other side has the gamma
\* of its own IV.
C5_BadIvContributesZero ==
    ChainGexCalled =>
        /\ ret.status = "ok"
        /\ Len(ret.gex_df) = Len(option_chain)
        /\ \A k \in DOMAIN option_chain :
            /\ ret.gex_df[k].call_gamma =
                    OwnGamma(option_chain[k], "call", option_chain[k].call_iv)
            /\ ret.gex_df[k].put_gamma =
                    OwnGamma(option_chain[k], "put", option_chain[k].put_iv)
            /\ (BadIv(option_chain[k].call_iv) /\ notna(option_chain[k].call_oi))
                    => ret.gex_df[k].call_gex = 0
            /\ (BadIv(option_chain[k].put_iv) /\ notna(option_chain[k].put_oi))
                    => ret.gex_df[k].put_gex = 0

\* an IV that fails the test of the code: missing, or not > 0
SkippedIv(iv) == iv = NaN \/ iv <= 0

\* C5, as the code has it: a side whose IV is missing or not > 0 (zero,
\* negative, -inf) has gamma 0; an IV of +inf passes the test and is handed
\* to calculate_greeks, whose gamma for it is nan.
C5_SkippedIvContributesZero ==
    ChainGexCalled =>
        /\ ret.status = "ok"
        /\ Len(ret.gex_df) = Len(option_chain)
        /\ \A k \in DOMAIN option_chain :
            /\ SkippedIv(option_chain[k].call_iv)
                    => ret.gex_df[k].call_gamma = 0
            /\ SkippedIv(option_chain[k].put_iv)
                    => ret.gex_df[k].put_gamma = 0
            /\ option_chain[k].call_iv = PosInf
                    => ret.gex_df[k].call_gamma = NaN
            /\ option_chain[k].put_iv = PosInf
                    => ret.gex_df[k].put_gamma = NaN

\* a chain whose first row has an infinite call IV and a usable put IV, next
\* to a row with both IVs usable
C5_Witness ==
    /\ ChainGexCalled
    /\ Len(option_chain) = 2
    /\ option_chain[1].call_iv = PosInf
    /\ option_chain[1].put_iv = 2000
    /\ option_chain[2].call_iv = 2000
    /\ option_chain[2].put_iv = 2000
    /\ ret.status = "ok"
    /\ ret.gex_df[1].call_gex = NaN
    /\ ret.gex_df[2].call_gex > 0

\* ---- properties of the frame of calculate_chain_gex and of find_gex_levels ----

GexLevelsCalled == pc = "gex_levels_done"
GexLevelsReturned == pc = "gex_levels_done" /\ loc.status = "ok"

\* the rows of the returned frame lie in ascending order of strike
AscendingStrikes(gex_df) ==
    \A a, b \in DOMAIN gex_df : a < b => gex_df[a].strike < gex_df[b].strike

\* C11: whatever the order of the rows of the chain, the rows chain_gex
\* returns are ordered by ascending strike.
C11_RowsAscendingByStrike ==
    ChainGexReturned => AscendingStrikes(ret.gex_df)

\* C11, as the code has it: the rows come out in the order of the chain's
\* rows, so they ascend exactly when the chain's rows do.
C11_RowsInChainOrder ==
    ChainGexReturned =>
        /\ Len(ret.gex_df) = Len(option_chain)
        /\ \A k \in DOMAIN option_chain :
                ret.gex_df[k].strike = option_chain[k].strike

\* a chain of three strikes listed out of order went through chain_gex
C11_Witness ==
    /\ ChainGexReturned
    /\ Len(option_chain) = 3
    /\ option_chain[1].strike = 20000
    /\ option_chain[2].strike = 19000
    /\ ret.gex_df[1].strike = 20000

\* the sum of net_gex over the rows whose strike is at most that of row k
RunningSumByStrike(gex_df, k) ==
    series_sum([j \in DOMAIN gex_df |->
                   IF gex_df[j].strike <= gex_df[k].strike
                   THEN gex_df[j].net_gex ELSE 0],
               Len(gex_df))
HighestStrikeRow(gex_df) ==
    CHOOSE k \in DOMAIN gex_df :
        \A j \in DOMAIN gex_df : gex_df[j].strike <= gex_df[k].strike

\* C12: cumulative_gex of a row is the sum of net_gex over the rows up to it
\* in ascending-strike order, and cumulative_gex of the highest strike is
\* the total_gex find_gex_levels reports.
C12_CumulativeIsRunningSum ==
    GexLevelsReturned =>
        /\ \A k \in DOMAIN ret.gex_df :
                ret.gex_df[k].cumulative_gex = RunningSumByStrike(ret.gex_df, k)
        /\ ret.gex_df[HighestStrikeRow(ret.gex_df)].cumulative_gex
                = loc.total_gex

\* C12, as the code has it: the running sum follows the order of the rows,
\* so it is the sum in ascending-strike order when the chain is listed in
\* ascending order, for the rows whose net_gex is present.
AllNetGexPresent(gex_df) == \A k \in DOMAIN gex_df : notna(gex_df[k].net_gex)
C12_CumulativeOfSortedChain ==
    (GexLevelsReturned /\ AscendingStrikes(ret.gex_df)
                       /\ AllNetGexPresent(ret.gex_df)) =>
        /\ \A k \in DOMAIN ret.gex_df :
                ret.gex_df[k].cumulative_gex = RunningSumByStrike(ret.gex_df, k)
        /\ ret.gex_df[Len(ret.gex_df)].cumulative_gex = loc.total_gex

\* three strikes in ascending order with exposures of both signs
C12_Witness ==
    /\ GexLevelsReturned
    /\ Len(ret.gex_df) = 3
    /\ AscendingStrikes(ret.gex_df)
    /\ ret.gex_df[1].net_gex > 0
    /\ ret.gex_df[2].net_gex < 0
    /\ ret.gex_df[3].net_gex > 0
    /\ ret.gex_df[3].cumulative_gex = loc.total_gex
    /\ loc.total_gex # ret.gex_df[3].net_gex

\* the sum of the net_gex values present in the frame
NetGexTotal(gex_df) ==
    SumOver({k \in DOMAIN gex_df : notna(gex_df[k].net_gex)},
            [k \in DOMAIN gex_df |-> gex_df[k].net_gex])

\* C13: gex_regime is "positive" exactly when the sum of net_gex over all
\* rows is > 0 and "negative" otherwise, a sum of exactly 0 included;
\* trading_bias is "mean_reverting" exactly when the regime is "positive"
\* and "trending" exactly when it is "negative".
C13_RegimeFollowsTotal ==
    GexLevelsReturned =>
        /\ loc.total_gex = NetGexTotal(ret.gex_df)
        /\ loc.gex_regime \in {"positive", "negative"}
        /\ loc.gex_regime = "positive" <=> NetGexTotal(ret.gex_df) > 0
        /\ NetGexTotal(ret.gex_df) = 0 => loc.gex_regime = "negative"
        /\ loc.trading_bias \in {"mean_reverting", "trending"}
        /\ loc.trading_bias = "mean_reverting" <=> loc.gex_regime = "positive"
        /\ loc.trading_bias = "trending" <=> loc.gex_regime = "negative"

\* three strikes with quoted IVs whose exposures are all 0: a total of
\* exactly 0, reported as the negative regime
C13_Witness ==
    /\ GexLevelsReturned
    /\ Len(ret.gex_df) = 3
    /\ \A k \in DOMAIN ret.gex_df : ret.gex_df[k].call_gex > 0
    /\ NetGexTotal(ret.gex_df) = 0
    /\ loc.gex_regime = "negative"
    /\ loc.trading_bias = "trending"

\* the rows of the frame in ascending order of strike, and in the order of
\* the frame
RowsByStrike(gex_df) ==
    CHOOSE p \in [DOMAIN gex_df -> DOMAIN gex_df] :
        \A a, b \in DOMAIN gex_df :
            a < b => gex_df[p[a]].strike < gex_df[p[b]].strike
RowsAsListed(gex_df) == [k \in DOMAIN gex_df |-> k]

\* two net_gex values of opposite sign (neither is 0, neither is missing)
OppositeSign(gex1, gex2) ==
    /\ notna(gex1) /\ notna(gex2)
    /\ \/ gex1 < 0 /\ gex2 > 0
       \/ gex1 > 0 /\ gex2 < 0

\* the positions k, in ascending order, at which rows p[k] and p[k + 1] have
\* net_gex of opposite sign
CrossingPairs(gex_df, p) ==
    LET Crosses(k) == OppositeSign(gex_df[p[k]].net_gex,
                                   gex_df[p[k + 1]].net_gex)
    IN  SelectSeq([k \in 1 .. Len(gex_df) - 1 |-> k], Crosses)

Between(x, a, b) == (a < x /\ x < b) \/ (b < x /\ x < a)

\* C14: flip_levels has exactly one entry for every pair of adjacent strikes
\* whose net_gex values have opposite sign and no other entry; each entry is
\* strike1 + (strike2 - strike1) * |gex1| / (|gex1| + |gex2|), lies strictly
\* between strike1 and strike2, and the entries are in the order of their
\* pairs.
C14_FlipLevelsOfAdjacentStrikes ==
    GexLevelsReturned =>
        LET gex_df == ret.gex_df
            p == RowsByStrike(gex_df)
            pairs == CrossingPairs(gex_df, p)
        IN  /\ Len(loc.flip_levels) = Len(pairs)
            /\ \A i \in DOMAIN pairs :
                LET row1 == gex_df[p[pairs[i]]]
                    row2 == gex_df[p[pairs[i] + 1]]
                IN  /\ Abs(loc.flip_levels[i]
                            - flip_level(row1.strike, row2.strike,
                                         row1.net_gex, row2.net_gex)) <= 1
                    /\ Between(loc.flip_levels[i],
                               row1.strike * FP, row2.strike * FP)

\* C14, as the code has it: the pairs are the pairs of adjacent rows of the
\* frame, which are the pairs of adjacent strikes when the frame is listed in
\* ascending order.
C14_FlipLevelsOfAdjacentRows ==
    GexLevelsReturned =>
        LET gex_df == ret.gex_df
            pairs == CrossingPairs(gex_df, RowsAsListed(gex_df))
        IN  /\ Len(loc.flip_levels) = Len(pairs)
            /\ \A i \in DOMAIN pairs :
                LET row1 == gex_df[pairs[i]]
                    row2 == gex_df[pairs[i] + 1]
                IN  /\ loc.flip_levels[i]
                            = flip_level(row1.strike, row2.strike,
                                         row1.net_gex, row2.net_gex)
                    /\ Between(loc.flip_levels[i],
                               row1.strike * FP, row2.strike * FP)

\* an ascending frame whose exposure changes sign twice, and one with a row
\* of exposure 0 between a positive and a negative one
C14_Witness ==
    /\ GexLevelsReturned
    /\ AscendingStrikes(ret.gex_df)
    /\ Len(ret.gex_df) = 3
    /\ \/ /\ ret.gex_df[1].net_gex > 0
          /\ ret.gex_df[2].net_gex < 0
          /\ ret.gex_df[3].net_gex > 0
          /\ Len(loc.flip_levels) = 2
          /\ loc.flip_levels[1] < loc.flip_levels[2]
       \/ /\ ret.gex_df[1].net_gex > 0
          /\ ret.gex_df[2].net_gex = 0
          /\ ret.gex_df[3].net_gex < 0
          /\ Len(loc.flip_levels) = 0

\* the sum of the net_gex values present in the rows whose strike is in S
NetGexOver(gex_df, S) ==
    SumOver({k \in DOMAIN gex_df :
                gex_df[k].strike \in S /\ notna(gex_df[k].net_gex)},
            [k \in DOMAIN gex_df |-> gex_df[k].net_gex])
FrameStrikes(gex_df) == {gex_df[k].strike : k \in DOMAIN gex_df}

\* C15: gex_above_spot is the sum of net_gex over the rows with strike >
\* spot, gex_below_spot the sum over the rows with strike < spot; a row whose
\* strike equals spot is in neither, so the two and the net_gex at spot add
\* up to total_gex.
C15_AboveAndBelowSpot ==
    GexLevelsReturned =>
        LET gex_df == ret.gex_df
            strikes == FrameStrikes(gex_df)
        IN  /\ loc.gex_above_spot
                    = NetGexOver(gex_df, {k \in strikes : k > loc.spot})
            /\ loc.gex_below_spot
                    = NetGexOver(gex_df, {k \in strikes : k < loc.spot})
            /\ loc.gex_above_spot + loc.gex_below_spot
                    + NetGexOver(gex_df, {loc.spot}) = loc.total_gex

\* three strikes with exposure, the spot at the middle one
C15_Witness ==
    /\ GexLevelsReturned
    /\ Len(ret.gex_df) = 3
    /\ loc.spot = 19500
    /\ NetGexOver(ret.gex_df, {19500}) < 0
    /\ loc.gex_above_spot > 0
    /\ loc.gex_below_spot > 0
    /\ loc.gex_above_spot + loc.gex_below_spot # loc.total_gex

\* the net_gex of the row of a strike
NetGexAt(gex_df, strike) ==
    gex_df[CHOOSE k \in DOMAIN gex_df : gex_df[k].strike = strike].net_gex
PresentNetGex(gex_df) ==
    {gex_df[k].net_gex : k \in {j \in DOMAIN gex_df : notna(gex_df[j].net_gex)}}

\* C16: the net_gex at max_positive_gex_strike is > 0 and >= the net_gex of
\* every other row; the net_gex at max_negative_gex_strike is < 0 and <= the
\* net_gex of every other row.
C16_MaxPositiveAndNegativeStrikes ==
    GexLevelsReturned =>
        LET highest == NetGexAt(ret.gex_df, loc.max_positive_gex_strike)
            lowest == NetGexAt(ret.gex_df, loc.max_negative_gex_strike)
        IN  /\ notna(highest) /\ highest > 0
            /\ \A g \in PresentNetGex(ret.gex_df) : highest >= g
            /\ notna(lowest) /\ lowest < 0
            /\ \A g \in PresentNetGex(ret.gex_df) : lowest <= g

\* C16, as the code has it: the two strikes are those of the largest and of
\* the smallest net_gex, whatever their sign; the largest is > 0 only when
\* some row is positive, the smallest < 0 only when some row is negative.
C16_LargestAndSmallestStrikes ==
    GexLevelsReturned =>
        LET highest == NetGexAt(ret.gex_df, loc.max_positive_gex_strike)
            lowest == NetGexAt(ret.gex_df, loc.max_negative_gex_strike)
        IN  /\ notna(highest) /\ notna(lowest)
            /\ \A g \in PresentNetGex(ret.gex_df) : lowest <= g /\ g <= highest
            /\ highest > 0 <=> \E g \in PresentNetGex(ret.gex_df) : g > 0
            /\ lowest < 0 <=> \E g \in PresentNetGex(ret.gex_df) : g < 0

\* a frame with a positive and a negative exposure
C16_Witness ==
    /\ GexLevelsReturned
    /\ Len(ret.gex_df) = 3
    /\ NetGexAt(ret.gex_df, loc.max_positive_gex_strike) > 0
    /\ NetGexAt(ret.gex_df, loc.max_negative_gex_strike) < 0
    /\ loc.max_positive_gex_strike = 20000
    /\ loc.max_negative_gex_strike = 19000

(***************************************************************************)
(* MaxPainCalculator: support and resistance, OI concentration, pain       *)
(* score.  An empty chain here is a frame that has its columns and no row. *)
(***************************************************************************)
\* x is sorted before y by sort_values(ascending=False): a larger value
\* first, a missing value last
sorted_before(x, y) == notna(x) /\ (y = NaN \/ x > y)

\* sort_values(column, ascending=False).head(num_levels): the sets of rows
\* that can be kept; which of several rows of equal value are kept depends
\* on the sort
head_rows(col, num_levels) ==
    {T \in SUBSET DOMAIN col :
        /\ Cardinality(T) = Min(num_levels, Len(col))
        /\ \A a \in T, b \in DOMAIN col \ T : ~sorted_before(col[b], col[a])}

\* sorted(levels) and sorted(levels, reverse=True) of a list of distinct
\* strikes
sorted_ascending(levels) ==
    CHOOSE s \in [1 .. Cardinality(levels) -> levels] :
        \A a, b \in 1 .. Cardinality(levels) : a < b => s[a] < s[b]
sorted_not_reversed(levels) == sorted_ascending(levels)
sorted_reverse(levels) ==
    CHOOSE s \in [1 .. Cardinality(levels) -> levels] :
        \A a, b \in 1 .. Cardinality(levels) : a < b => s[a] > s[b]

\* find_support_resistance, for the rows the two sorts kept
find_support_resistance(chain, call_oi_sorted, put_oi_sorted) ==
    [status |-> "ok",
     resistance |-> sorted_reverse({chain[k].strike : k \in call_oi_sorted}),
     support |-> sorted_ascending({chain[k].strike : k \in put_oi_sorted})]

\* the filter of calculate_oi_concentration on one strike
near_spot_strictly(strike, spot, range_points) ==
    strike > spot - range_points /\ strike < spot + range_points
near_spot(strike, spot, range_points) ==
    strike >= spot - range_points /\ strike <= spot + range_points

\* put-call ratio of the sums, 0 when the call sum is not > 0
near_spot_pcr_unguarded(total_put_oi, total_call_oi) ==
    DivFP(total_put_oi, total_call_oi)
near_spot_pcr(total_put_oi, total_call_oi) ==
    IF total_call_oi > 0 THEN DivFP(total_put_oi, total_call_oi) ELSE 0

oi_concentration_of(total_call_oi, total_put_oi, range_points) ==
    [status |-> "ok",
     near_spot_call_oi |-> total_call_oi,
     near_spot_put_oi |-> total_put_oi,
     near_spot_total_oi |-> total_call_oi + total_put_oi,
     near_spot_pcr |-> near_spot_pcr(total_put_oi, total_call_oi),
     range_points |-> range_points]
calculate_oi_concentration(chain, spot, range_points) ==
    oi_concentration_of(
        series_sum([k \in DOMAIN chain |->
                       IF near_spot(chain[k].strike, spot, range_points)
                       THEN chain[k].call_oi ELSE 0], Len(chain)),
        series_sum([k \in DOMAIN chain |->
                       IF near_spot(chain[k].strike, spot, range_points)
                       THEN chain[k].put_oi ELSE 0], Len(chain)),
        range_points)

\* Series.min()
RECURSIVE series_min(_, _)
series_min(col, n) ==
    IF n = 1 THEN col[1] ELSE Min(series_min(col, n - 1), col[n])

\* pain_score of calculate_pain_score, a real
pain_score_unguarded(current_pain, min_pain) ==
    DivFP(current_pain - min_pain, min_pain)
pain_score_of(current_pain, min_pain) ==
    IF min_pain > 0 THEN DivFP(current_pain - min_pain, min_pain) ELSE 0

pain_score_result(distance_from_max_pain, max_pain, current_pain, min_pain) ==
    [status |-> "ok",
     distance_from_max_pain |-> distance_from_max_pain,
     distance_percentage |->
        IMul(DivFP(distance_from_max_pain, max_pain), 100),
     current_pain |-> current_pain,
     min_pain |-> min_pain,
     pain_score |-> pain_score_of(current_pain, min_pain)]
calculate_pain_score(current_price, max_pain, pain_df) ==
    pain_score_result(
        current_price - max_pain,
        max_pain,
        pain_df[idxmin([k \in DOMAIN pain_df |->
                           Abs(pain_df[k].strike - current_price)])].total_pain,
        series_min([k \in DOMAIN pain_df |-> pain_df[k].total_pain],
                   Len(pain_df)))

\* arguments of the three calls
NumLevels == 0 .. 4
ConcentrationSpots == {19250, 19500}
RangePoints == {0, 250, 500}
CurrentPrices == {19250, 19400, 19500}

InitLevels ==
    /\ pc = "levels"
    /\ option_chain \in PainChains
    /\ args = NoArgs
    /\ ret = NoRet
    /\ loc = NoLoc

FindSupportResistance ==
    /\ pc = "levels"
    /\ \E num_levels \in NumLevels :
        /\ args' = [num_levels |-> num_levels]
        /\ \E call_oi_sorted \in
                head_rows([k \in DOMAIN option_chain |->
                              option_chain[k].call_oi], num_levels),
              put_oi_sorted \in
                head_rows([k \in DOMAIN option_chain |->
                              option_chain[k].put_oi], num_levels) :
            ret' = find_support_resistance(option_chain, call_oi_sorted,
                                           put_oi_sorted)
    /\ loc' = NoLoc
    /\ pc' = "support_resistance_done"
    /\ UNCHANGED option_chain

CalculateOiConcentration ==
    /\ pc = "levels"
    /\ \E spot \in ConcentrationSpots, range_points \in RangePoints :
        /\ args' = [spot |-> spot, range_points |-> range_points]
        /\ ret' = calculate_oi_concentration(option_chain, spot, range_points)
    /\ loc' = NoLoc
    /\ pc' = "oi_concentration_done"
    /\ UNCHANGED option_chain

NextLevels == FindSupportResistance \/ CalculateOiConcentration

SpecLevels == InitLevels /\ [][NextLevels]_vars

\* calculate_pain_score on the strike and the curve calculate_max_pain
\* returned
InitPainScore == InitMaxPain /\ args.lot_size = 50

CalculatePainScore ==
    /\ pc = "done"
    /\ ret.status = "ok"
    /\ \E current_price \in CurrentPrices :
        loc' = [current_price |-> current_price,
                score |-> calculate_pain_score(current_price,
                              ret.max_pain_strike, ret.pain_df)]
    /\ pc' = "pain_score_done"
    /\ UNCHANGED <<option_chain, args, ret>>

NextPainScore == CalculateMaxPain \/ CalculatePainScore

SpecPainScore == InitPainScore /\ [][NextPainScore]_vars

\* ---- properties of find_support_resistance, calculate_oi_concentration
\* ---- and calculate_pain_score

SupportResistanceReturned == pc = "support_resistance_done"
Entries(levels) == {levels[i] : i \in DOMAIN levels}

\* open interest x is higher than open interest y, a missing one being the
\* lowest
HigherOi(x, y) == notna(x) /\ (y = NaN \/ x > y)

\* C18: resistance is the num_levels strikes with the highest call OI in
\* descending strike order, support the num_levels strikes with the highest
\* put OI in ascending strike order; each list has min(num_levels, number
\* of chain rows) entries, all of them listed strikes.
C18_SupportResistanceLevels ==
    SupportResistanceReturned =>
        LET count == Min(args.num_levels, Len(option_chain))
            resistance == ret.resistance
            support == ret.support
        IN  /\ Len(resistance) = count
            /\ Len(support) = count
            /\ \A i, j \in DOMAIN resistance :
                    i < j => resistance[i] > resistance[j]
            /\ \A i, j \in DOMAIN support : i < j => support[i] < support[j]
            /\ Entries(resistance) \subseteq ListedStrikes
            /\ Entries(support) \subseteq ListedStrikes
            /\ \A kept \in Entries(resistance) :
                    \A other \in ListedStrikes \ Entries(resistance) :
                        ~HigherOi(RowAt(other).call_oi, RowAt(kept).call_oi)
            /\ \A kept \in Entries(support) :
                    \A other \in ListedStrikes \ Entries(support) :
                        ~HigherOi(RowAt(other).put_oi, RowAt(kept).put_oi)

\* two levels out of three strikes whose open interests all differ, the
\* strike left out of resistance being kept in support
C18_Witness ==
    /\ SupportResistanceReturned
    /\ args.num_levels = 2
    /\ Len(option_chain) = 3
    /\ option_chain[1].strike > option_chain[2].strike
    /\ \A a, b \in DOMAIN option_chain :
            a # b => /\ option_chain[a].call_oi # option_chain[b].call_oi
                     /\ option_chain[a].put_oi # option_chain[b].put_oi
    /\ \A a \in DOMAIN option_chain : notna(option_chain[a].call_oi)
    /\ ret.resistance = <<20000, 19500>>
    /\ ret.support = <<19000, 19500>>

OiConcentrationReturned == pc = "oi_concentration_done"

\* the strikes of the chain within range_points of spot, both ends included
StrikesInRange ==
    {k \in ListedStrikes :
        args.spot - args.range_points <= k /\ k <= args.spot + args.range_points}

\* C19: oi_concentration sums call OI and put OI over exactly the rows with
\* spot - range_points <= strike <= spot + range_points and reports their
\* sum as total; near_spot_pcr is put sum / call sum when the call sum is
\* > 0 and 0 when it is 0, also when no strike is in range; it is never
\* negative and never nan, and the call does not fail.
C19_OiConcentration ==
    OiConcentrationReturned =>
        LET call_sum == SumOver(StrikesInRange,
                                [k \in ListedStrikes |-> CallOiAt(k)])
            put_sum == SumOver(StrikesInRange,
                               [k \in ListedStrikes |-> PutOiAt(k)])
        IN  /\ ret.status = "ok"
            /\ ret.near_spot_call_oi = call_sum
            /\ ret.near_spot_put_oi = put_sum
            /\ ret.near_spot_total_oi = call_sum + put_sum
            /\ call_sum > 0 =>
                    /\ IsFinite(ret.near_spot_pcr)
                    /\ Abs(ret.near_spot_pcr * call_sum - put_sum * FP)
                            <= call_sum
            /\ call_sum = 0 => ret.near_spot_pcr = 0
            /\ IsFinite(ret.near_spot_pcr) /\ ret.near_spot_pcr >= 0

\* a strike on each end of the range counted, one outside left out, and
\* a call sum of 0 next to a put sum > 0
C19_Witness ==
    /\ OiConcentrationReturned
    /\ Len(option_chain) = 3
    /\ args.spot = 19250 /\ args.range_points = 250
    /\ StrikesInRange = {19000, 19500}
    /\ CallOiAt(20000) > 0 /\ PutOiAt(20000) > 0
    /\ ret.near_spot_call_oi = 0
    /\ ret.near_spot_put_oi > 0
    /\ ret.near_spot_pcr = 0

PainScoreReturned == pc = "pain_score_done"

\* the distance of row a of the curve from the current price
DistanceOfRow(a) == Abs(ret.pain_df[a].strike - loc.current_price)
\* the first of the rows of the curve nearest the current price
NearestRow ==
    CHOOSE a \in DOMAIN ret.pain_df :
        /\ \A b \in DOMAIN ret.pain_df : DistanceOfRow(a) <= DistanceOfRow(b)
        /\ \A b \in DOMAIN ret.pain_df :
                DistanceOfRow(b) = DistanceOfRow(a) => a <= b
MinTotalPain ==
    CHOOSE x \in {ret.pain_df[a].total_pain : a \in DOMAIN ret.pain_df} :
        \A b \in DOMAIN ret.pain_df : x <= ret.pain_df[b].total_pain

\* C20: on a curve max_pain produced, current_pain is the total_pain of the
\* row nearest current_price (the first of two equally near),
\* distance_from_max_pain is current_price - max_pain, and pain_score is
\* (current_pain - min total_pain) / min total_pain when the minimum is > 0
\* and 0 when it is 0; pain_score is never negative and the call does not
\* fail on a zero minimum.
C20_PainScore ==
    PainScoreReturned =>
        LET score == loc.score
        IN  /\ score.status = "ok"
            /\ score.current_pain = ret.pain_df[NearestRow].total_pain
            /\ score.min_pain = MinTotalPain
            /\ score.distance_from_max_pain
                    = loc.current_price - ret.max_pain_strike
            /\ MinTotalPain > 0 =>
                    Abs(score.pain_score * MinTotalPain
                        - (score.current_pain - MinTotalPain) * FP)
                            <= MinTotalPain
            /\ MinTotalPain = 0 => score.pain_score = 0
            /\ IsFinite(score.pain_score) /\ score.pain_score >= 0

\* a price half way between two listed strikes whose pains differ, the
\* higher strike listed first, on a curve whose minimum is > 0
C20_Witness ==
    /\ PainScoreReturned
    /\ loc.current_price = 19250
    /\ Len(ret.pain_df) = 3
    /\ ret.pain_df[1].strike = 19500
    /\ ret.pain_df[2].strike = 19000
    /\ ret.pain_df[1].total_pain # ret.pain_df[2].total_pain
    /\ loc.score.current_pain = ret.pain_df[1].total_pain
    /\ MinTotalPain > 0
    /\ loc.score.pain_score > 0

\* a curve whose minimum is 0 while the row nearest the price has pain
C20_ZeroMinimumWitness ==
    /\ PainScoreReturned
    /\ MinTotalPain = 0
    /\ loc.score.current_pain > 0
    /\ loc.score.pain_score = 0

(***************************************************************************)
(* OIAnalyzer (features/oi_analysis.py).  The put-call ratio and the       *)
(* percentages are reals; open interest and volume are plain numbers.      *)
(***************************************************************************)
PCR_BULLISH_THRESHOLD == 12000
PCR_BEARISH_THRESHOLD == 8000

\* a column of the chain with its missing values filled with 0; a chain
\* without the column gives the default of option_chain.get, Series([0])
column_filled(chain, name) ==
    [k \in DOMAIN chain |-> fillna(chain[k][name], 0)]
column_or_zero(chain, name) ==
    IF Len(chain) > 0 /\ name \in DOMAIN chain[1]
    THEN column_filled(chain, name)
    ELSE <<0>>

\* put aggregate / call aggregate, 0 when the call aggregate is not > 0
put_call_ratio_unguarded(total_put, total_call) == DivFP(total_put, total_call)
put_call_ratio(total_put, total_call) ==
    IF total_call > 0 THEN DivFP(total_put, total_call) ELSE 0

pcr_of_columns(put_column, call_column) ==
    [status |-> "ok",
     pcr |-> put_call_ratio(series_sum(put_column, Len(put_column)),
                            series_sum(call_column, Len(call_column)))]
calculate_pcr(chain, method) ==
    IF method = "oi"
    THEN pcr_of_columns(column_filled(chain, "put_oi"),
                        column_filled(chain, "call_oi"))
    ELSE IF method = "volume"
    THEN pcr_of_columns(column_or_zero(chain, "put_volume"),
                        column_or_zero(chain, "call_volume"))
    ELSE [status |-> "ValueError"]

\* interpret_pcr: a comparison with nan is false
interpret_pcr_bullish_at_threshold(pcr) ==
    IF notna(pcr) /\ pcr >= PCR_BULLISH_THRESHOLD THEN "bullish"
    ELSE IF notna(pcr) /\ pcr < PCR_BEARISH_THRESHOLD THEN "bearish"
    ELSE "neutral"
interpret_pcr(pcr) ==
    IF notna(pcr) /\ pcr > PCR_BULLISH_THRESHOLD THEN "bullish"
    ELSE IF notna(pcr) /\ pcr < PCR_BEARISH_THRESHOLD THEN "bearish"
    ELSE "neutral"

\* snapshots for the analyzer: at most two rows, strikes unique, with or
\* without the two volume columns
VolumePairs == {<<0, 0>>, <<0, 3>>, <<2, 1>>, <<NaN, 2>>}
OiRows == [strike : StrikeSet, call_oi : OiValues, put_oi : OiValues]
VolumeRows ==
    {[strike |-> r.strike, call_oi |-> r.call_oi, put_oi |-> r.put_oi,
      call_volume |-> v[1], put_volume |-> v[2]] :
        r \in OiRows, v \in VolumePairs}
ChainsOf(rows) ==
    UNION {
        {c \in [1 .. n -> rows] :
            \A a, b \in 1 .. n : a # b => c[a].strike # c[b].strike}
        : n \in 0 .. Cardinality(StrikeSet) - 1}
AnalyzerChains == ChainsOf(OiRows) \cup ChainsOf(VolumeRows)
Methods == {"oi", "volume", "ratio"}
\* values handed to interpret_pcr directly: around both thresholds, and
\* the values that are not numbers
PcrValues ==
    {0, 7999, 8000, 8001, 10000, 11999, 12000, 12001, 50000,
     0 - 5000, NaN, PosInf, NegInf}

InitAnalyzer ==
    /\ pc = "analyzer"
    /\ option_chain \in AnalyzerChains
    /\ args = NoArgs
    /\ ret = NoRet
    /\ loc = NoLoc

InitInterpret ==
    /\ pc = "interpret"
    /\ option_chain = NoChain
    /\ args \in [pcr : PcrValues]
    /\ ret = NoRet
    /\ loc = NoLoc

CalculatePcr ==
    /\ pc = "analyzer"
    /\ \E method \in Methods :
        /\ args' = [method |-> method]
        /\ ret' = calculate_pcr(option_chain, method)
    /\ pc' = "pcr_done"
    /\ UNCHANGED <<option_chain, loc>>

\* interpret_pcr on a given value, or on the ratio calculate_pcr returned
InterpretPcr ==
    \/ /\ pc = "interpret"
       /\ ret' = [status |-> "ok", pcr |-> args.pcr]
       /\ loc' = [sentiment |-> interpret_pcr(args.pcr)]
       /\ pc' = "interpret_done"
       /\ UNCHANGED <<option_chain, args>>
    \/ /\ pc = "pcr_done"
       /\ ret.status = "ok"
       /\ loc' = [sentiment |-> interpret_pcr(ret.pcr)]
       /\ pc' = "interpret_done"
       /\ UNCHANGED <<option_chain, args, ret>>

\* DataFrame.replace([inf, -inf], 0) followed by DataFrame.fillna(0), on
\* one value
keep_infinite(x) == fillna(x, 0)
replace_inf_fillna(x) == IF x = PosInf \/ x = NegInf \/ x = NaN THEN 0 ELSE x

\* change / previous * 100, as a real
change_pct(change, previous) == IMul(DivFP(change, previous), 100)

\* one row of the merged frame of analyze_oi_changes, after the clean-up
oi_change_row(current, previous) ==
    [strike |-> current.strike,
     call_oi_current |-> replace_inf_fillna(current.call_oi),
     put_oi_current |-> replace_inf_fillna(current.put_oi),
     call_oi_change |->
        replace_inf_fillna(XSub(current.call_oi, previous.call_oi)),
     put_oi_change |->
        replace_inf_fillna(XSub(current.put_oi, previous.put_oi)),
     call_oi_change_pct |->
        replace_inf_fillna(change_pct(XSub(current.call_oi, previous.call_oi),
                                      previous.call_oi)),
     put_oi_change_pct |->
        replace_inf_fillna(change_pct(XSub(current.put_oi, previous.put_oi),
                                      previous.put_oi))]

\* DataFrame.merge(on="strike") of two frames with unique strikes: the rows
\* of the left frame whose strike is in the right frame, in the order of the
\* left frame, each with its partner
RECURSIVE merge_on_strike(_, _, _)
merge_on_strike(current_chain, previous_chain, n) ==
    IF n = 0 THEN <<>>
    ELSE LET partners == {k \in DOMAIN previous_chain :
                            previous_chain[k].strike = current_chain[n].strike}
             before == merge_on_strike(current_chain, previous_chain, n - 1)
         IN  IF partners = {} THEN before
             ELSE Append(before,
                         oi_change_row(current_chain[n],
                                       previous_chain[CHOOSE k \in partners : TRUE]))

analyze_oi_changes(current_chain, previous_chain) ==
    [status |-> "ok",
     oi_change_df |-> merge_on_strike(current_chain, previous_chain,
                                      Len(current_chain))]

\* the sum of a change column over the rows above spot, or over the others
change_sum(oi_change_df, spot, name, above) ==
    series_sum([k \in DOMAIN oi_change_df |->
                   IF (oi_change_df[k].strike > spot) = above
                   THEN oi_change_df[k][name] ELSE 0],
               Len(oi_change_df))

\* every pattern that applies, in the order of the tests
signals_all(call_above, call_below, put_above, put_below) ==
    (IF call_below > 0 /\ put_above > 0 THEN <<"long_buildup">> ELSE <<>>)
    \o (IF call_above > 0 /\ put_below > 0 THEN <<"short_buildup">> ELSE <<>>)
    \o (IF call_below > 0 /\ put_below > 0 THEN <<"long_unwinding">> ELSE <<>>)
    \o (IF call_above > 0 /\ put_above > 0 THEN <<"short_covering">> ELSE <<>>)
\* the signals of calculate_oi_buildup: the tests are one if / elif chain,
\* so only the first pattern that applies is appended
signals_of(call_above, call_below, put_above, put_below) ==
    IF call_below > 0 /\ put_above > 0 THEN <<"long_buildup">>
    ELSE IF call_above > 0 /\ put_below > 0 THEN <<"short_buildup">>
    ELSE IF call_below > 0 /\ put_below > 0 THEN <<"long_unwinding">>
    ELSE IF call_above > 0 /\ put_above > 0 THEN <<"short_covering">>
    ELSE <<>>

oi_buildup_of(call_above, call_below, put_above, put_below) ==
    [status |-> "ok",
     signals |-> signals_of(call_above, call_below, put_above, put_below),
     call_above_change |-> call_above,
     call_below_change |-> call_below,
     put_above_change |-> put_above,
     put_below_change |-> put_below]
calculate_oi_buildup(oi_change_df, spot) ==
    oi_buildup_of(change_sum(oi_change_df, spot, "call_oi_change", TRUE),
                  change_sum(oi_change_df, spot, "call_oi_change", FALSE),
                  change_sum(oi_change_df, spot, "put_oi_change", TRUE),
                  change_sum(oi_change_df, spot, "put_oi_change", FALSE))

\* the two snapshots of analyze_oi_changes: at most two rows each
ChangeOiPairs ==
    {<<0, 0>>, <<1, NaN>>, <<NaN, 1>>, <<MaxOi, MaxOi>>, <<0, MaxOi>>,
     <<MaxOi, 1>>}
ChangeRows ==
    {[strike |-> k, call_oi |-> oi[1], put_oi |-> oi[2]] :
        k \in StrikeSet, oi \in ChangeOiPairs}
ChangeChains == ChainsOf(ChangeRows)
BuildupSpots == {19250, 19500}

InitChanges ==
    /\ pc = "changes"
    /\ option_chain \in ChangeChains
    /\ args \in [previous_chain : ChangeChains]
    /\ ret = NoRet
    /\ loc = NoLoc

AnalyzeOiChanges ==
    /\ pc = "changes"
    /\ ret' = analyze_oi_changes(option_chain, args.previous_chain)
    /\ pc' = "changes_done"
    /\ UNCHANGED <<option_chain, args, loc>>

\* calculate_oi_buildup on the frame analyze_oi_changes returned
CalculateOiBuildup ==
    /\ pc = "changes_done"
    /\ \E spot \in BuildupSpots :
        loc' = [spot |-> spot,
                buildup |-> calculate_oi_buildup(ret.oi_change_df, spot)]
    /\ pc' = "buildup_done"
    /\ UNCHANGED <<option_chain, args, ret>>

\* ---- OIAnalyzer.calculate_oi_distribution ----

\* the two columns added to the copy of the chain
itm_call_or_at_spot(strike, spot) == strike <= spot
itm_call(strike, spot) == strike < spot
itm_put(strike, spot) == strike > spot

\* option_chain[mask][name].sum(), the mask given as a set of positions
masked_sum(chain, name, mask) ==
    series_sum([k \in DOMAIN chain |->
                   IF k \in mask THEN chain[k][name] ELSE 0],
               Len(chain))

\* x / total * 100 if total > 0 else 0
oi_pct(x, total) ==
    IF notna(total) /\ total > 0 THEN IMul(DivFP(x, total), 100) ELSE 0

oi_distribution_of(itm_call_oi, otm_call_oi, itm_put_oi, otm_put_oi) ==
    LET total_call_oi == XAdd(itm_call_oi, otm_call_oi)
        total_put_oi == XAdd(itm_put_oi, otm_put_oi)
    IN  [itm_call_oi |-> itm_call_oi,
         otm_call_oi |-> otm_call_oi,
         itm_put_oi |-> itm_put_oi,
         otm_put_oi |-> otm_put_oi,
         total_call_oi |-> total_call_oi,
         total_put_oi |-> total_put_oi,
         itm_call_oi_pct |-> oi_pct(itm_call_oi, total_call_oi),
         otm_call_oi_pct |-> oi_pct(otm_call_oi, total_call_oi),
         itm_put_oi_pct |-> oi_pct(itm_put_oi, total_put_oi),
         otm_put_oi_pct |-> oi_pct(otm_put_oi, total_put_oi)]

calculate_oi_distribution(chain, spot) ==
    LET itm_calls == {k \in DOMAIN chain : itm_call(chain[k].strike, spot)}
        itm_puts == {k \in DOMAIN chain : itm_put(chain[k].strike, spot)}
    IN  oi_distribution_of(
            masked_sum(chain, "call_oi", itm_calls),
            masked_sum(chain, "call_oi", DOMAIN chain \ itm_calls),
            masked_sum(chain, "put_oi", itm_puts),
            masked_sum(chain, "put_oi", DOMAIN chain \ itm_puts))

\* spot between two strikes, and on a strike
DistributionSpots == {19250, 19500}

CalculateOiDistribution ==
    /\ pc = "analyzer"
    /\ \E spot \in DistributionSpots :
        /\ args' = [spot |-> spot]
        /\ ret' = [status |-> "ok",
                   distribution |->
                       calculate_oi_distribution(option_chain, spot)]
    /\ pc' = "distribution_done"
    /\ UNCHANGED <<option_chain, loc>>

InitOi == InitAnalyzer \/ InitInterpret \/ InitChanges

NextOi ==
    \/ CalculatePcr
    \/ InterpretPcr
    \/ AnalyzeOiChanges
    \/ CalculateOiBuildup
    \/ CalculateOiDistribution

SpecOi == InitOi /\ [][NextOi]_vars

\* ---- properties of OIAnalyzer ----

PcrCalled == pc = "pcr_done"
\* the sum of a column of the chain, a missing value or a missing column
\* counting as 0
ColumnTotal(name) ==
    SumOver({k \in DOMAIN option_chain :
                name \in DOMAIN option_chain[k] /\ notna(option_chain[k][name])},
            [k \in DOMAIN option_chain |->
                IF name \in DOMAIN option_chain[k] THEN option_chain[k][name]
                ELSE 0])
\* r is the real put / call to the rounding of the reals
IsRatio(r, put, call) == IsFinite(r) /\ Abs(r * call - put * FP) <= call

\* C21: pcr returns aggregate put OI / aggregate call OI for method "oi"
\* and aggregate put volume / aggregate call volume for method "volume",
\* missing values counting as 0; it returns 0, without raising and without
\* nan, when the call aggregate is 0; for any other method it fails with an
\* invalid-input error and returns no value.
C21_PutCallRatio ==
    PcrCalled =>
        LET put == IF args.method = "oi" THEN ColumnTotal("put_oi")
                   ELSE ColumnTotal("put_volume")
            call == IF args.method = "oi" THEN ColumnTotal("call_oi")
                    ELSE ColumnTotal("call_volume")
        IN  /\ args.method \in {"oi", "volume"} =>
                /\ ret.status = "ok"
                /\ call > 0 => IsRatio(ret.pcr, put, call)
                /\ call = 0 => ret.pcr = 0
            /\ args.method \notin {"oi", "volume"} =>
                /\ ret.status = "ValueError"
                /\ DOMAIN ret = {"status"}

\* a volume ratio over a chain with a missing volume, whose OI ratio would
\* be 0
C21_Witness ==
    /\ PcrCalled
    /\ Len(option_chain) = 2
    /\ args.method = "volume"
    /\ "call_volume" \in DOMAIN option_chain[1]
    /\ option_chain[1].call_volume = NaN
    /\ ColumnTotal("put_oi") = 0
    /\ ColumnTotal("put_volume") = 3
    /\ ColumnTotal("call_volume") = 2
    /\ ret.pcr = 15000

\* a call aggregate of 0 next to a put aggregate > 0
C21_ZeroCallWitness ==
    /\ PcrCalled
    /\ args.method = "oi"
    /\ ColumnTotal("call_oi") = 0
    /\ ColumnTotal("put_oi") > 0
    /\ ret.pcr = 0

InterpretCalled == pc = "interpret_done"

\* C22: interpret_pcr returns "bullish" exactly when the value is > 1.2,
\* "bearish" exactly when it is < 0.8 and "neutral" for every value in
\* [0.8, 1.2], both ends included; every value gets exactly one label.
C22_InterpretPcr ==
    InterpretCalled =>
        /\ loc.sentiment \in {"bullish", "bearish", "neutral"}
        /\ loc.sentiment = "bullish" <=> (notna(ret.pcr) /\ ret.pcr > 12000)
        /\ loc.sentiment = "bearish" <=> (notna(ret.pcr) /\ ret.pcr < 8000)
        /\ (notna(ret.pcr) /\ 8000 <= ret.pcr /\ ret.pcr <= 12000)
                => loc.sentiment = "neutral"

\* the value is exactly the upper threshold
C22_Witness ==
    /\ InterpretCalled
    /\ ret.pcr = 12000
    /\ loc.sentiment = "neutral"

ChangesReturned == pc = "changes_done" /\ ret.status = "ok"
PreviousStrikes ==
    {args.previous_chain[k].strike : k \in DOMAIN args.previous_chain}
PreviousRowAt(strike) ==
    args.previous_chain[CHOOSE k \in DOMAIN args.previous_chain :
                            args.previous_chain[k].strike = strike]

\* change and percentage of one side of one row, against the two open
\* interests they come from
ChangeOfSide(current, previous, change, pct) ==
    /\ (notna(current) /\ notna(previous)) => change = current - previous
    /\ IsFinite(pct)
    /\ (previous = NaN \/ previous = 0) => pct = 0
    /\ (notna(previous) /\ previous # 0) =>
            Abs(pct * previous - change * 100 * FP) <= 100 * Abs(previous)

\* C23: for snapshots with unique strikes oi_changes returns exactly one row
\* for each strike present in both snapshots and none for any other strike;
\* on each row the OI change of a side is current OI - previous OI and the
\* percentage is change / previous OI * 100, except that it is 0, never nan
\* or infinite, when the previous OI is 0 or missing.
C23_OiChanges ==
    ChangesReturned =>
        LET rows == ret.oi_change_df
        IN  /\ {rows[k].strike : k \in DOMAIN rows}
                    = ListedStrikes \cap PreviousStrikes
            /\ Len(rows) = Cardinality(ListedStrikes \cap PreviousStrikes)
            /\ \A k \in DOMAIN rows :
                LET current == RowAt(rows[k].strike)
                    previous == PreviousRowAt(rows[k].strike)
                IN  /\ ChangeOfSide(current.call_oi, previous.call_oi,
                                    rows[k].call_oi_change,
                                    rows[k].call_oi_change_pct)
                    /\ ChangeOfSide(current.put_oi, previous.put_oi,
                                    rows[k].put_oi_change,
                                    rows[k].put_oi_change_pct)

\* one strike in both snapshots and one in each alone; on the shared row the
\* call side has a previous OI of 0 and grew, the put side shrank
C23_Witness ==
    /\ ChangesReturned
    /\ Len(option_chain) = 2
    /\ Len(args.previous_chain) = 2
    /\ Len(ret.oi_change_df) = 1
    /\ ret.oi_change_df[1].call_oi_change > 0
    /\ ret.oi_change_df[1].call_oi_change_pct = 0
    /\ ret.oi_change_df[1].put_oi_change < 0
    /\ ret.oi_change_df[1].put_oi_change_pct < 0
    /\ ret.oi_change_df[1].put_oi_change_pct > 0 - 100 * FP

BuildupReturned == pc = "buildup_done"
BuildupSignals == {loc.buildup.signals[i] : i \in DOMAIN loc.buildup.signals}

\* C25: signals holds every label whose condition applies: "long_buildup"
\* when the call-below and put-above changes both sum to > 0,
\* "short_buildup" when call-above and put-below do, "long_unwinding" when
\* call-below and put-below do, "short_covering" when call-above and
\* put-above do; it is empty when none applies.
C25_AllMatchingSignals ==
    BuildupReturned =>
        LET b == loc.buildup
        IN  /\ "long_buildup" \in BuildupSignals
                <=> (b.call_below_change > 0 /\ b.put_above_change > 0)
            /\ "short_buildup" \in BuildupSignals
                <=> (b.call_above_change > 0 /\ b.put_below_change > 0)
            /\ "long_unwinding" \in BuildupSignals
                <=> (b.call_below_change > 0 /\ b.put_below_change > 0)
            /\ "short_covering" \in BuildupSignals
                <=> (b.call_above_change > 0 /\ b.put_above_change > 0)

\* C25, as the code has it: the four conditions are one if/elif chain, so
\* signals holds the first label whose condition applies and nothing else.
C25_FirstMatchingSignal ==
    BuildupReturned =>
        LET b == loc.buildup
            long_buildup == b.call_below_change > 0 /\ b.put_above_change > 0
            short_buildup == b.call_above_change > 0 /\ b.put_below_change > 0
            long_unwinding == b.call_below_change > 0 /\ b.put_below_change > 0
            short_covering == b.call_above_change > 0 /\ b.put_above_change > 0
        IN  /\ Len(b.signals) <= 1
            /\ "long_buildup" \in BuildupSignals <=> long_buildup
            /\ "short_buildup" \in BuildupSignals <=> (short_buildup /\ ~long_buildup)
            /\ "long_unwinding" \in BuildupSignals
                <=> (long_unwinding /\ ~long_buildup /\ ~short_buildup)
            /\ "short_covering" \in BuildupSignals
                <=> (short_covering /\ ~long_buildup /\ ~short_buildup
                                    /\ ~long_unwinding)

\* open interest grew on both sides above and below spot: all four
\* conditions apply
C25_Witness ==
    /\ BuildupReturned
    /\ loc.buildup.call_above_change > 0
    /\ loc.buildup.call_below_change > 0
    /\ loc.buildup.put_above_change > 0
    /\ loc.buildup.put_below_change > 0
    /\ loc.buildup.signals = <<"long_buildup">>

DistributionReturned == pc = "distribution_done"
\* the open interest of one side over the strikes below, at or above spot
OiWhere(name, Test(_)) ==
    series_sum([k \in DOMAIN option_chain |->
                   IF Test(option_chain[k].strike)
                   THEN option_chain[k][name] ELSE 0],
               Len(option_chain))
\* two percentages add up to 100, to the rounding of the model's reals
SumsTo100(p, q) ==
    /\ p + q >= 100 * FP - 200
    /\ p + q <= 100 * FP

\* C24: oi_distribution counts a call in the money iff its strike is below
\* spot and a put iff its strike is above spot, so a strike equal to spot
\* is out of the money on both sides; on each side itm + otm is the total,
\* the two percentages add up to 100 when the total is > 0 and are both 0
\* when it is 0.
C24_OiDistribution ==
    DistributionReturned =>
        LET d == ret.distribution
            Below(strike) == strike < args.spot
            NotBelow(strike) == strike >= args.spot
            Above(strike) == strike > args.spot
            NotAbove(strike) == strike <= args.spot
        IN  /\ d.itm_call_oi = OiWhere("call_oi", Below)
            /\ d.otm_call_oi = OiWhere("call_oi", NotBelow)
            /\ d.itm_put_oi = OiWhere("put_oi", Above)
            /\ d.otm_put_oi = OiWhere("put_oi", NotAbove)
            /\ d.itm_call_oi + d.otm_call_oi = d.total_call_oi
            /\ d.itm_put_oi + d.otm_put_oi = d.total_put_oi
            /\ IF d.total_call_oi > 0
               THEN SumsTo100(d.itm_call_oi_pct, d.otm_call_oi_pct)
               ELSE d.itm_call_oi_pct = 0 /\ d.otm_call_oi_pct = 0
            /\ IF d.total_put_oi > 0
               THEN SumsTo100(d.itm_put_oi_pct, d.otm_put_oi_pct)
               ELSE d.itm_put_oi_pct = 0 /\ d.otm_put_oi_pct = 0

\* a strike on spot with open interest on both sides, a call side split
\* between ITM and OTM and a put side with no open interest in the money
C24_Witness ==
    /\ DistributionReturned
    /\ \E k \in DOMAIN option_chain :
        /\ option_chain[k].strike = args.spot
        /\ notna(option_chain[k].call_oi) /\ option_chain[k].call_oi > 0
        /\ notna(option_chain[k].put_oi) /\ option_chain[k].put_oi > 0
    /\ ret.distribution.itm_call_oi > 0
    /\ ret.distribution.otm_call_oi > 0
    /\ ret.distribution.itm_put_oi = 0
    /\ ret.distribution.otm_put_oi_pct = 100 * FP

\* no open interest on the call side: both call percentages are 0
C24_EmptySideWitness ==
    /\ DistributionReturned
    /\ Len(option_chain) > 0
    /\ ret.distribution.total_call_oi = 0
    /\ ret.distribution.total_put_oi > 0
    /\ ret.distribution.itm_call_oi_pct = 0

(***************************************************************************)
(* The frames the engines are given, as objects                            *)
(***************************************************************************)
\* A heap is a sequence of frames and a reference a position in it. The
\* caller holds the snapshot (reference 1), the previous snapshot (2) and
\* the frame an earlier call returned (3); a call allocates behind them.
\* A call is the sequence of its statements that create or write a frame;
\* it yields the heap it leaves, the frame that carries its derived
\* columns (local) and the frame it returns (result), 0 for none.
frame_new(heap, content) ==
    [heap |-> Append(heap, content), ref |-> Len(heap) + 1]
frame_same(heap, ref) == [heap |-> heap, ref |-> ref]
\* DataFrame.copy()
frame_copy(heap, ref) == frame_new(heap, heap[ref])
\* df[names], df[mask]: a new frame
frame_project(heap, ref, names) ==
    frame_new(heap, [k \in DOMAIN heap[ref] |->
                        [c \in names |-> heap[ref][k][c]]])
frame_filter(heap, ref, Keep(_)) == frame_new(heap, SelectSeq(heap[ref], Keep))
\* df[name] = values: writes the object df refers to
frame_setitem(heap, ref, name, values) ==
    [heap EXCEPT ![ref] = [k \in DOMAIN @ |-> (name :> values[k]) @@ @[k]]]
\* df.replace(..., inplace=True), df.fillna(..., inplace=True)
frame_inplace(heap, ref, Op(_)) ==
    [heap EXCEPT ![ref] =
        [k \in DOMAIN @ |-> [c \in DOMAIN @[k] |-> Op(@[k][c])]]]
frames_read_only(heap) == [heap |-> heap, local |-> 0, result |-> 0]

\* calculate_chain_gex: gex_df = pd.DataFrame(results), then
\* gex_df["cumulative_gex"] = ...
without_column(rows, name) ==
    [k \in DOMAIN rows |-> [c \in DOMAIN rows[k] \ {name} |-> rows[k][c]]]
frames_of_gex_df(gex_df, rows) ==
    [heap |-> frame_setitem(gex_df.heap, gex_df.ref, "cumulative_gex",
                            [k \in DOMAIN rows |-> rows[k].cumulative_gex]),
     local |-> gex_df.ref,
     result |-> gex_df.ref]
frames_of_chain_gex(heap, gex) ==
    IF gex.status # "ok" THEN frames_read_only(heap)
    ELSE frames_of_gex_df(
            frame_new(heap, without_column(gex.gex_df, "cumulative_gex")),
            gex.gex_df)
frames_chain_gex(heap, option_chain_ref, spot) ==
    frames_of_chain_gex(heap,
        calculate_chain_gex(heap[option_chain_ref], spot, 7, 50))

\* calculate_max_pain: pain_df = pd.DataFrame(pain_data)
frames_of_max_pain(heap, pain) ==
    IF pain.status # "ok" THEN frames_read_only(heap)
    ELSE [heap |-> Append(heap, pain.pain_df), local |-> 0,
          result |-> Len(heap) + 1]
frames_max_pain(heap, option_chain_ref) ==
    frames_of_max_pain(heap, calculate_max_pain(heap[option_chain_ref], 50))

\* find_support_resistance, find_call_put_walls: option_chain[["strike",
\* "call_oi"]] and option_chain[["strike", "put_oi"]], which sort_values
\* and head copy again
frames_top_oi(heap, option_chain_ref) ==
    LET calls == frame_project(heap, option_chain_ref, {"strike", "call_oi"})
        puts == frame_project(calls.heap, option_chain_ref,
                              {"strike", "put_oi"})
    IN  [heap |-> puts.heap, local |-> 0, result |-> 0]

\* calculate_oi_concentration: near_spot = option_chain[mask]
frames_oi_concentration(heap, option_chain_ref, spot, range_points) ==
    LET Near(row) == near_spot(row.strike, spot, range_points)
        near == frame_filter(heap, option_chain_ref, Near)
    IN  [heap |-> near.heap, local |-> 0, result |-> 0]

\* analyze_oi_changes: merged = current_chain.merge(previous_chain, ...),
\* four columns set on merged, merged cleaned in place, seven of its
\* columns returned
merged_frame(current_chain, previous_chain) ==
    LET Matched(row) ==
            \E j \in DOMAIN previous_chain :
                previous_chain[j].strike = row.strike
        matched == SelectSeq(current_chain, Matched)
    IN  [k \in DOMAIN matched |->
            LET previous ==
                    previous_chain[CHOOSE j \in DOMAIN previous_chain :
                        previous_chain[j].strike = matched[k].strike]
            IN  [strike |-> matched[k].strike,
                 call_oi_current |-> matched[k].call_oi,
                 put_oi_current |-> matched[k].put_oi,
                 call_oi_previous |-> previous.call_oi,
                 put_oi_previous |-> previous.put_oi]]
oi_change_columns ==
    {"strike", "call_oi_current", "put_oi_current", "call_oi_change",
     "put_oi_change", "call_oi_change_pct", "put_oi_change_pct"}
\* merged[name] = merged[current] - merged[previous]
frame_set_change(heap, ref, name, current, previous) ==
    frame_setitem(heap, ref, name,
        [k \in DOMAIN heap[ref] |->
            XSub(heap[ref][k][current], heap[ref][k][previous])])
\* merged[name] = merged[change] / merged[previous] * 100
frame_set_change_pct(heap, ref, name, change, previous) ==
    frame_setitem(heap, ref, name,
        [k \in DOMAIN heap[ref] |->
            change_pct(heap[ref][k][change], heap[ref][k][previous])])
frames_of_merged(merged) ==
    LET returned ==
            frame_project(
                frame_inplace(
                    frame_set_change_pct(
                        frame_set_change_pct(
                            frame_set_change(
                                frame_set_change(merged.heap, merged.ref,
                                    "call_oi_change", "call_oi_current",
                                    "call_oi_previous"),
                                merged.ref, "put_oi_change",
                                "put_oi_current", "put_oi_previous"),
                            merged.ref, "call_oi_change_pct",
                            "call_oi_change", "call_oi_previous"),
                        merged.ref, "put_oi_change_pct", "put_oi_change",
                        "put_oi_previous"),
                    merged.ref, replace_inf_fillna),
                merged.ref, oi_change_columns)
    IN  [heap |-> returned.heap, local |-> merged.ref,
         result |-> returned.ref]
frames_oi_changes(heap, current_ref, previous_ref) ==
    frames_of_merged(
        frame_new(heap, merged_frame(heap[current_ref], heap[previous_ref])))

\* calculate_oi_distribution: option_chain = option_chain.copy(), then two
\* columns set on what option_chain now refers to
frame_set_itm(heap, ref, name, spot, Itm(_, _)) ==
    frame_setitem(heap, ref, name,
        [k \in DOMAIN heap[ref] |-> Itm(heap[ref][k].strike, spot)])
frames_of_distribution(option_chain_local, spot) ==
    [heap |-> frame_set_itm(
                  frame_set_itm(option_chain_local.heap,
                                option_chain_local.ref, "itm_call", spot,
                                itm_call),
                  option_chain_local.ref, "itm_put", spot, itm_put),
     local |-> option_chain_local.ref,
     result |-> 0]
frames_oi_distribution(heap, option_chain_ref, spot) ==
    frames_of_distribution(frame_copy(heap, option_chain_ref), spot)

\* calculate_oi_buildup: oi_change_df = oi_change_df.copy(), then
\* relative_to_spot set on what oi_change_df now refers to
relative_to_spot(strike, spot) == IF strike > spot THEN "above" ELSE "below"
frames_of_buildup(oi_change_df, spot) ==
    [heap |-> frame_set_itm(oi_change_df.heap, oi_change_df.ref,
                            "relative_to_spot", spot, relative_to_spot),
     local |-> oi_change_df.ref,
     result |-> 0]
frames_oi_buildup(heap, oi_change_df_ref, spot) ==
    frames_of_buildup(frame_copy(heap, oi_change_df_ref), spot)

\* snapshots: one or two rows, strikes unique, both IVs quoted; the
\* previous snapshot lists two strikes
FrameOiPairs == {<<1000, 1500>>, <<0, NaN>>}
FrameRows ==
    {[strike |-> k, call_oi |-> oi[1], put_oi |-> oi[2],
      call_iv |-> 2000, put_iv |-> 2000] :
        k \in StrikeSet, oi \in FrameOiPairs}
FrameChains ==
    UNION {
        {c \in [1 .. n -> FrameRows] :
            \A a, b \in 1 .. n : a # b => c[a].strike # c[b].strike}
        : n \in 1 .. Cardinality(StrikeSet) - 1}
PreviousFrameChains ==
    {c \in FrameChains :
        Len(c) = 2 /\ c[1].strike = 19000 /\ c[2].strike = 19500}
FrameSpots == {19500}
DerivedFrames == {"gex_df", "pain_df", "oi_change_df"}

\* the caller keeps what the frames held when it built them (given) and,
\* of the frame a call returned, what it held on return (returned)
InitFrames ==
    /\ pc = "frames"
    /\ option_chain \in FrameChains
    /\ \E previous_chain \in PreviousFrameChains :
        args = [previous_chain |-> previous_chain,
                given |-> [option_chain |-> option_chain,
                           previous_chain |-> previous_chain]]
    /\ ret = [status |-> "none", kind |-> "none", frame |-> <<>>,
              returned |-> <<>>]
    /\ loc = [local |-> <<>>]

Heap == <<option_chain, args.previous_chain, ret.frame>>

\* what a call leaves behind for the caller
FrameCall(kind, call) ==
    \E left \in {call} :
        /\ option_chain' = left.heap[1]
        /\ args' = [args EXCEPT !.previous_chain = left.heap[2]]
        /\ ret' = IF left.result # 0
                  THEN [status |-> "ok", kind |-> kind,
                        frame |-> left.heap[left.result],
                        returned |-> left.heap[left.result]]
                  ELSE [ret EXCEPT !.frame = left.heap[3]]
        /\ loc' = [local |-> IF left.local # 0 THEN left.heap[left.local]
                             ELSE <<>>]

FramesChainGex ==
    /\ pc' = "chain_gex"
    /\ \E spot \in FrameSpots :
        FrameCall("gex_df", frames_chain_gex(Heap, 1, spot))
FramesGexLevels ==
    /\ ret.kind = "gex_df"
    /\ pc' = "gex_levels"
    /\ FrameCall("none", frames_read_only(Heap))
FramesMaxPain ==
    /\ pc' = "max_pain"
    /\ FrameCall("pain_df", frames_max_pain(Heap, 1))
FramesSupportResistance ==
    /\ pc' = "support_resistance"
    /\ FrameCall("none", frames_top_oi(Heap, 1))
FramesOiConcentration ==
    /\ pc' = "oi_concentration"
    /\ \E spot \in FrameSpots :
        FrameCall("none", frames_oi_concentration(Heap, 1, spot, 250))
FramesPainScore ==
    /\ ret.kind = "pain_df"
    /\ pc' = "pain_score"
    /\ FrameCall("none", frames_read_only(Heap))
FramesPcr ==
    /\ pc' = "pcr"
    /\ FrameCall("none", frames_read_only(Heap))
FramesOiChanges ==
    /\ pc' = "oi_changes"
    /\ FrameCall("oi_change_df", frames_oi_changes(Heap, 1, 2))
FramesWalls ==
    /\ pc' = "walls"
    /\ FrameCall("none", frames_top_oi(Heap, 1))
FramesOiDistribution ==
    /\ pc' = "oi_distribution"
    /\ \E spot \in FrameSpots :
        FrameCall("none", frames_oi_distribution(Heap, 1, spot))
FramesOiBuildup ==
    /\ ret.kind = "oi_change_df"
    /\ pc' = "oi_buildup"
    /\ \E spot \in FrameSpots :
        FrameCall("none", frames_oi_buildup(Heap, 3, spot))

NextFrames ==
    \/ FramesChainGex
    \/ FramesGexLevels
    \/ FramesMaxPain
    \/ FramesSupportResistance
    \/ FramesOiConcentration
    \/ FramesPainScore
    \/ FramesPcr
    \/ FramesOiChanges
    \/ FramesWalls
    \/ FramesOiDistribution
    \/ FramesOiBuildup

SpecFrames == InitFrames /\ [][NextFrames]_vars

\* ---- properties of the frames ----

Columns(frame) == UNION {DOMAIN frame[k] : k \in DOMAIN frame}
DerivedColumns ==
    {"itm_call", "itm_put", "relative_to_spot", "call_oi_change",
     "put_oi_change", "call_oi_change_pct", "put_oi_change_pct"}

\* C26: no engine call changes a frame it is given: after any sequence of
\* calls the snapshot, the previous snapshot and the frame an earlier call
\* returned hold the rows, columns and values they held before, and the
\* derived columns are on none of the two snapshots.
C26_GivenFramesUnchanged ==
    pc # "frames" =>
        /\ option_chain = args.given.option_chain
        /\ args.previous_chain = args.given.previous_chain
        /\ ret.frame = ret.returned
        /\ Columns(option_chain) \cap DerivedColumns = {}
        /\ Columns(args.previous_chain) \cap DerivedColumns = {}
        /\ ret.kind = "oi_change_df" => "relative_to_spot" \notin Columns(ret.frame)

\* oi_distribution has set itm_call and itm_put on its copy of a snapshot
\* of two rows, after an earlier call returned a frame
C26_Witness ==
    /\ pc = "oi_distribution"
    /\ Len(option_chain) = 2
    /\ ret.kind = "oi_change_df"
    /\ {"itm_call", "itm_put"} \subseteq Columns(loc.local)
    /\ \E k \in DOMAIN loc.local : loc.local[k].itm_call

\* oi_buildup has set relative_to_spot on its copy of the frame oi_changes
\* returned
C26_BuildupWitness ==
    /\ pc = "oi_buildup"
    /\ Len(ret.frame) = 2
    /\ "relative_to_spot" \in Columns(loc.local)

\* analyze_oi_changes, statement by statement, returns the frame of
\* analyze_oi_changes
FramesOiChangesAgree ==
    pc = "oi_changes" =>
        ret.frame = analyze_oi_changes(option_chain,
                                       args.previous_chain).oi_change_df

(***************************************************************************)
(* Concurrent calls to the four engines on one snapshot                    *)
(***************************************************************************)
\* Each thread makes one call and runs it statement by statement; the
\* other thread may run between any two statements. The engines hold no
\* field a call writes (GreeksCalculator keeps risk_free_rate, the GEX
\* calculator its GreeksCalculator, both set in __init__; the other two
\* keep nothing), so what a call computes lives in the local variables of
\* its own activation: one cell of local variables per thread. frame_of
\* names the cell that holds what a call has collected so far; the
\* position of a call in its loop (i) is always the thread's own.
Threads == {"thread_1", "thread_2"}
Engines == {"greeks", "gex", "max_pain", "oi"}
engine_state(thread, engine) == engine
frame_of(thread, engine) == thread

\* the local variables of a call that has just been entered
NoLocals ==
    [i |-> 0, results |-> <<>>, total_put |-> 0, total_call |-> 0,
     d |-> [status |-> "unset"]]

\* the end of calculate_max_pain, from the pain_data the loop collected
max_pain_of(pain_df) ==
    IF Len(pain_df) = 0 THEN [status |-> "KeyError"]
    ELSE [status |-> "ok",
          max_pain_strike |->
              pain_df[idxmin([k \in DOMAIN pain_df |->
                                 pain_df[k].total_pain])].strike,
          pain_df |-> pain_df]

\* the arguments of the calls: equal for both threads
ThreadSpot == {19500}
ThreadLotSize == {50}
ThreadTimeToExpiry == {DivFP(7, 365)}
ThreadChains ==
    PreviousFrameChains \cup {c \in FrameChains : Len(c) = 1}

\* one statement of calculate_greeks: d1 and d2, then the Greeks
step_greeks(f, spot, strike, time_to_expiry, volatility) ==
    IF f.i = 0
    THEN [f EXCEPT !.i = 1,
                   !.d = calculate_d1_d2(spot, strike, time_to_expiry,
                                         volatility)]
    ELSE [f EXCEPT !.i = 2]
\* one pass of the loop of calculate_chain_gex over the rows
step_chain_gex(f, chain, spot, time_to_expiry, lot_size) ==
    [f EXCEPT !.i = f.i + 1,
              !.results = Append(f.results,
                  gex_row(chain[f.i + 1], spot, time_to_expiry, lot_size))]
\* one pass of the loop of calculate_max_pain over the settlements
step_max_pain(f, chain, lot_size) ==
    [f EXCEPT !.i = f.i + 1,
              !.results = Append(f.results, pain_data(chain, lot_size)[f.i + 1])]
\* one statement of calculate_pcr: total_put_oi, then total_call_oi
step_pcr(f, chain) ==
    IF f.i = 0
    THEN [f EXCEPT !.i = 1,
                   !.total_put = series_sum(column_filled(chain, "put_oi"),
                                            Len(chain))]
    ELSE [f EXCEPT !.i = 2,
                   !.total_call = series_sum(column_filled(chain, "call_oi"),
                                             Len(chain))]

\* how many statements the call of an engine runs before it returns
steps_of(engine, chain) ==
    IF engine \in {"greeks", "oi"} THEN 2 ELSE Len(chain)

InitThreads ==
    /\ pc = [t \in Threads |-> "ready"]
    /\ option_chain \in ThreadChains
    /\ args \in [Threads -> [engine : Engines, spot : ThreadSpot,
                             lot_size : ThreadLotSize,
                             time_to_expiry : ThreadTimeToExpiry]]
    /\ ret = [t \in Threads |-> NoRet]
    /\ loc = [cell \in Threads \cup Engines |-> NoLocals]

\* the call is entered: its local variables are fresh
ThreadEnter(t) ==
    /\ pc[t] = "ready"
    /\ pc' = [pc EXCEPT ![t] = "running"]
    /\ loc' = [loc EXCEPT ![frame_of(t, args[t].engine)] = NoLocals,
                          ![t] = [@ EXCEPT !.i = 0]]
    /\ UNCHANGED <<option_chain, args, ret>>

\* the local variables thread t works on
Locals(t) == [loc[frame_of(t, args[t].engine)] EXCEPT !.i = loc[t].i]

Running(t, engine) ==
    /\ pc[t] = "running"
    /\ args[t].engine = engine
    /\ loc[t].i < steps_of(engine, option_chain)
Returning(t, engine) ==
    /\ pc[t] = "running"
    /\ args[t].engine = engine
    /\ loc[t].i >= steps_of(engine, option_chain)
    /\ pc' = [pc EXCEPT ![t] = "done"]
    /\ UNCHANGED <<option_chain, args, loc>>
Stepping(t, engine, f) ==
    /\ loc' = [loc EXCEPT ![frame_of(t, engine)] = f,
                          ![t] = [@ EXCEPT !.i = f.i]]
    /\ UNCHANGED <<pc, option_chain, args, ret>>

ThreadGreeks(t) ==
    \/ /\ Running(t, "greeks")
       /\ \E f \in {step_greeks(Locals(t), args[t].spot,
                                args[t].spot, args[t].time_to_expiry, 2000)} :
            Stepping(t, "greeks", f)
    \/ /\ Returning(t, "greeks")
       /\ ret' = [ret EXCEPT ![t] =
                    greeks_result(Locals(t).d, args[t].spot,
                                  args[t].spot, args[t].time_to_expiry, 2000,
                                  "call")]

ThreadChainGex(t) ==
    \/ /\ Running(t, "gex")
       /\ \E f \in {step_chain_gex(Locals(t), option_chain,
                                   args[t].spot, args[t].time_to_expiry,
                                   args[t].lot_size)} :
            Stepping(t, "gex", f)
    \/ /\ Returning(t, "gex")
       /\ ret' = [ret EXCEPT ![t] =
                    chain_gex_of(Locals(t).results)]

ThreadMaxPain(t) ==
    \/ /\ Running(t, "max_pain")
       /\ \E f \in {step_max_pain(Locals(t), option_chain,
                                  args[t].lot_size)} :
            Stepping(t, "max_pain", f)
    \/ /\ Returning(t, "max_pain")
       /\ ret' = [ret EXCEPT ![t] =
                    max_pain_of(Locals(t).results)]

ThreadPcr(t) ==
    \/ /\ Running(t, "oi")
       /\ \E f \in {step_pcr(Locals(t), option_chain)} :
            Stepping(t, "oi", f)
    \/ /\ Returning(t, "oi")
       /\ ret' = [ret EXCEPT ![t] =
                    [status |-> "ok",
                     pcr |-> put_call_ratio(Locals(t).total_put,
                                            Locals(t).total_call)]]

NextThreads ==
    \E t \in Threads :
        \/ ThreadEnter(t)
        \/ ThreadGreeks(t)
        \/ ThreadChainGex(t)
        \/ ThreadMaxPain(t)
        \/ ThreadPcr(t)

SpecThreads == InitThreads /\ [][NextThreads]_vars

\* ---- properties of concurrent calls ----

\* what the call of a thread returns when it runs alone
Alone(t) ==
    IF args[t].engine = "greeks"
    THEN calculate_greeks(args[t].spot, args[t].spot, args[t].time_to_expiry,
                          2000, "call")
    ELSE IF args[t].engine = "gex"
    THEN calculate_chain_gex(option_chain, args[t].spot, 7, args[t].lot_size)
    ELSE IF args[t].engine = "max_pain"
    THEN calculate_max_pain(option_chain, args[t].lot_size)
    ELSE calculate_pcr(option_chain, "oi")

\* C27: whatever the interleaving of the two calls, a call that has
\* returned has returned what it returns when it runs alone, and two calls
\* with equal inputs have returned equal results.
C27_CallsDoNotInterfere ==
    /\ \A t \in Threads : pc[t] = "done" => ret[t] = Alone(t)
    /\ \A t, u \in Threads :
        (pc[t] = "done" /\ pc[u] = "done" /\ args[t] = args[u])
            => ret[t] = ret[u]

\* both threads called the same engine on a snapshot of two rows; one has
\* returned while the other was entered and is in the middle of its loop
C27_Witness ==
    /\ Len(option_chain) = 2
    /\ args["thread_1"].engine = "max_pain"
    /\ args["thread_2"].engine = "max_pain"
    /\ pc["thread_1"] = "done"
    /\ ret["thread_1"].status = "ok"
    /\ pc["thread_2"] = "running"
    /\ loc["thread_2"].i = 1

\* both calls have returned, from different engines
C27_BothReturnedWitness ==
    /\ Len(option_chain) = 2
    /\ args["thread_1"].engine = "gex"
    /\ args["thread_2"].engine = "greeks"
    /\ pc = [t \in Threads |-> "done"]
    /\ ret["thread_1"].status = "ok"
    /\ ret["thread_2"].status = "ok"

(***************************************************************************)
(* NSEDataCollector.get_option_chain: the retry loop                       *)
(***************************************************************************)
\* loc holds the locals of the call (attempt, the exception caught) and the
\* events of the call so far: every time.sleep and every session.get, in
\* order. Sleeps are held in seconds * FP.
RECURSIVE pow2(_)
pow2(n) == IF n = 0 THEN 1 ELSE 2 * pow2(n - 1)
\* time.sleep(2 ** attempt)
backoff_twice_attempt(attempt) == 2 * attempt * FP
backoff(attempt) == pow2(attempt) * FP
\* attempt < settings.nse.max_retries - 1
retry_allowed(attempt, max_retries) == attempt < max_retries - 1

\* one item of records.data; a side that is not quoted is absent, an
\* impliedVolatility of null is held as NaN
parse_side(item, side, name) ==
    IF side \in DOMAIN item THEN item[side][name] ELSE 0
\* ce_data.get("impliedVolatility", 0) / 100 raises TypeError on null
parse_item(item) ==
    IF parse_side(item, "CE", "impliedVolatility") = NaN
       \/ parse_side(item, "PE", "impliedVolatility") = NaN
    THEN [status |-> "TypeError"]
    ELSE [status |-> "ok",
          row |-> [strike |-> item.strikePrice,
                   call_oi |-> parse_side(item, "CE", "openInterest"),
                   call_iv |-> DivFP(parse_side(item, "CE", "impliedVolatility"),
                                     100),
                   put_oi |-> parse_side(item, "PE", "openInterest"),
                   put_iv |-> DivFP(parse_side(item, "PE", "impliedVolatility"),
                                    100)]]
\* the body of the try block after the request: the frame, or the first
\* exception raised
parse_response(response) ==
    IF response.status # "ok" THEN [status |-> response.status]
    ELSE LET parsed == [k \in DOMAIN response.data |->
                            parse_item(response.data[k])]
         IN  IF \E k \in DOMAIN parsed : parsed[k].status # "ok"
             THEN [status |-> "TypeError"]
             ELSE [status |-> "ok",
                   df |-> [k \in DOMAIN parsed |-> parsed[k].row]]

\* what the exchange may answer
Quoted == {[openInterest |-> 1000, impliedVolatility |-> 20],
           [openInterest |-> 0, impliedVolatility |-> NaN]}
Items ==
    {[strikePrice |-> 19500, CE |-> ce, PE |-> pe] :
        ce \in Quoted, pe \in {[openInterest |-> 1500, impliedVolatility |-> 25]}}
    \cup {[strikePrice |-> 19500, PE |-> [openInterest |-> 1500,
                                         impliedVolatility |-> 25]]}
Responses ==
    {[status |-> "HTTPError"], [status |-> "ConnectionError"],
     [status |-> "ok", data |-> <<>>]}
    \cup {[status |-> "ok", data |-> <<item>>] : item \in Items}
MaxRetries == 0 .. 4
RateLimitDelays == {FP \div 2, FP}

InitFetch ==
    /\ pc = "get_option_chain"
    /\ option_chain = NoChain
    /\ args \in [max_retries : MaxRetries, rate_limit_delay : RateLimitDelays]
    /\ ret = NoRet
    /\ loc = [attempt |-> 0, error |-> "none", events |-> <<>>]

\* for attempt in range(max_retries): the loop is entered, or it is empty
\* and the empty frame after it is returned
FetchEnter ==
    /\ pc = "get_option_chain"
    /\ IF args.max_retries > 0
       THEN pc' = "rate_limit" /\ ret' = ret
       ELSE pc' = "returned" /\ ret' = [status |-> "ok", df |-> <<>>]
    /\ UNCHANGED <<option_chain, args, loc>>

\* self._rate_limit()
RateLimit ==
    /\ pc = "rate_limit"
    /\ loc' = [loc EXCEPT !.events =
                  Append(@, [kind |-> "sleep", attempt |-> loc.attempt,
                             seconds |-> args.rate_limit_delay])]
    /\ pc' = "request"
    /\ UNCHANGED <<option_chain, args, ret>>

\* session.get, raise_for_status and the parsing of the answer
FetchWith(parsed) ==
    /\ loc' = [loc EXCEPT !.events =
                  Append(@, [kind |-> "get", attempt |-> loc.attempt,
                             status |-> parsed.status]),
                          !.error = IF parsed.status = "ok" THEN loc.error
                                    ELSE parsed.status]
    /\ IF parsed.status = "ok"
       THEN pc' = "returned" /\ ret' = parsed
       ELSE pc' = "except" /\ ret' = ret
Fetch ==
    /\ pc = "request"
    /\ \E response \in Responses : FetchWith(parse_response(response))
    /\ UNCHANGED <<option_chain, args>>

\* except Exception: back off and go round again, or raise
FetchFailed ==
    /\ pc = "except"
    /\ IF retry_allowed(loc.attempt, args.max_retries)
       THEN /\ loc' = [loc EXCEPT !.events =
                          Append(@, [kind |-> "backoff",
                                     attempt |-> loc.attempt,
                                     seconds |-> backoff(loc.attempt)]),
                                  !.attempt = @ + 1]
            /\ pc' = "rate_limit"
            /\ ret' = ret
       ELSE /\ loc' = loc
            /\ pc' = "raised"
            /\ ret' = [status |-> loc.error]
    /\ UNCHANGED <<option_chain, args>>

NextFetch == FetchEnter \/ RateLimit \/ Fetch \/ FetchFailed

SpecFetch == InitFetch /\ [][NextFetch]_vars

\* ---- properties of get_option_chain ----

Events == loc.events
Gets == {k \in DOMAIN Events : Events[k].kind = "get"}
FailedGets == {k \in Gets : Events[k].status # "ok"}
LastAttempt(k) == Events[k].attempt = args.max_retries - 1

\* C29: at most max_retries requests, numbered from 0, each right after
\* the rate-limit delay; the chain of the first request that succeeds is
\* returned and nothing follows it; a failed request a that is not the
\* last is followed by a wait of 2^a seconds and the next request; the
\* failure of the last request is raised with no wait after it, and no
\* chain is returned.
C29_RetryLoop ==
    /\ Cardinality(Gets) <= args.max_retries
    /\ \A k \in Gets :
        /\ Events[k].attempt = Cardinality({j \in Gets : j < k})
        /\ k > 1
        /\ Events[k - 1] = [kind |-> "sleep", attempt |-> Events[k].attempt,
                            seconds |-> args.rate_limit_delay]
        /\ Events[k].status = "ok" =>
                /\ k = Len(Events)
                /\ pc = "returned"
                /\ ret.status = "ok"
                /\ ~ENABLED NextFetch
    /\ \A k \in FailedGets :
        IF LastAttempt(k)
        THEN /\ k = Len(Events)
             /\ pc \in {"except", "raised"}
             /\ pc = "except" => ENABLED FetchFailed
             /\ pc = "raised" =>
                    /\ ret.status = Events[k].status
                    /\ "df" \notin DOMAIN ret
                    /\ ~ENABLED NextFetch
        ELSE /\ k = Len(Events) => pc = "except"
             /\ k < Len(Events) =>
                    Events[k + 1] = [kind |-> "backoff",
                                     attempt |-> Events[k].attempt,
                                     seconds |->
                                        pow2(Events[k].attempt) * FP]
    /\ \A k \in DOMAIN Events :
        Events[k].kind = "backoff" => k - 1 \in FailedGets
    /\ (pc = "returned" /\ args.max_retries > 0) =>
            (Len(Events) \in Gets /\ Events[Len(Events)].status = "ok")
    /\ pc = "raised" =>
            (Len(Events) \in FailedGets /\ LastAttempt(Len(Events)))

\* the third request succeeded after waits of 1 and 2 seconds
C29_Witness ==
    /\ pc = "returned"
    /\ args.max_retries = 4
    /\ Cardinality(Gets) = 3
    /\ Len(ret.df) = 1
    /\ \E k \in DOMAIN Events :
        Events[k].kind = "backoff" /\ Events[k].seconds = 2 * FP

\* every request failed: the last failure is raised
C29_RaisedWitness ==
    /\ pc = "raised"
    /\ args.max_retries = 3
    /\ Cardinality(Gets) = 3
    /\ ret.status = "TypeError"

(***************************************************************************)
(* BaseStrategy: positions opened and closed by signals                    *)
(***************************************************************************)
\* loc.positions is self.positions; a position is the object at its place
\* in the list. An entry_price of 0 stands for None as well (the code reads
\* both as 0). pc names the last call made.
MaxPositions == 2
Symbols == {"NIFTY", "BANKNIFTY"}
\* a buy at 100, a sell at 120 or without a price, a hold
SignalPrices ==
    [signal_type : {"buy"}, entry_price : {100}]
    \cup [signal_type : {"sell"}, entry_price : {0, 120}]
    \cup [signal_type : {"hold"}, entry_price : {0}]
Signals ==
    {[signal_type |-> p.signal_type, symbol |-> symbol,
      entry_price |-> p.entry_price, quantity |-> 50] :
        p \in SignalPrices, symbol \in Symbols}
\* execute is handed one signal, or a buy followed by a sell
SignalLists ==
    {<<s>> : s \in Signals}
    \cup {<<s, t>> : s \in {b \in Signals : b.signal_type = "buy"},
                     t \in {c \in Signals : c.signal_type = "sell"}}
QuotedPrices == {110}

\* _open_position: the new Position, open, with no P&L
open_position(signal, position_id) ==
    [position_id |-> position_id,
     symbol |-> signal.symbol,
     quantity |-> signal.quantity,
     entry_price |-> signal.entry_price,
     current_price |-> 0,
     unrealized_pnl |-> 0,
     realized_pnl |-> 0,
     status |-> "open"]

\* the test of the loop of _close_positions
closes_whatever_status(position, signal) == position.symbol = signal.symbol
closes(position, signal) ==
    position.status = "open" /\ position.symbol = signal.symbol

\* _close_positions
close_positions(positions, signal) ==
    [k \in DOMAIN positions |->
        IF closes(positions[k], signal)
        THEN [positions[k] EXCEPT
                !.status = "closed",
                !.realized_pnl =
                    (signal.entry_price - positions[k].entry_price)
                        * positions[k].quantity]
        ELSE positions[k]]

\* execute: the signals one after the other; a position_id is the symbol
\* and the time of the opening, here the number of positions opened before
RECURSIVE execute(_, _, _)
execute(positions, signals, n) ==
    IF n = 0 THEN positions
    ELSE LET before == execute(positions, signals, n - 1)
             signal == signals[n]
         IN  IF signal.signal_type = "buy"
             THEN Append(before,
                         open_position(signal, <<signal.symbol, Len(before)>>))
             ELSE IF signal.signal_type = "sell"
             THEN close_positions(before, signal)
             ELSE before

\* calculate_pnl: open positions are marked to the price quoted for their
\* position_id, or to their entry price
mark_position(position, quoted, price) ==
    IF position.status = "open"
    THEN LET current_price ==
                IF position.position_id \in quoted THEN price
                ELSE position.entry_price
         IN  [position EXCEPT
                !.current_price = current_price,
                !.unrealized_pnl =
                    (current_price - position.entry_price)
                        * position.quantity]
    ELSE position
position_pnl(position) ==
    IF position.status = "open" THEN position.unrealized_pnl
    ELSE position.realized_pnl
calculate_pnl(positions, quoted, price) ==
    LET marked == [k \in DOMAIN positions |->
                      mark_position(positions[k], quoted, price)]
    IN  [positions |-> marked,
         total_pnl |-> sum([k \in DOMAIN marked |-> position_pnl(marked[k])],
                           Len(marked))]

\* the positions of the two lists, as places in self.positions
get_open_positions(positions) ==
    {k \in DOMAIN positions : positions[k].status = "open"}
get_closed_positions(positions) ==
    {k \in DOMAIN positions : positions[k].status = "closed"}

InitStrategy ==
    /\ pc = "strategy"
    /\ option_chain = NoChain
    /\ args = NoArgs
    /\ ret = NoRet
    /\ loc = [positions |-> <<>>]

Buys(signals) ==
    Cardinality({k \in DOMAIN signals : signals[k].signal_type = "buy"})

Execute ==
    /\ \E signals \in SignalLists :
        /\ Len(loc.positions) + Buys(signals) <= MaxPositions
        /\ args' = [signals |-> signals]
        /\ \E positions \in {execute(loc.positions, signals, Len(signals))} :
            /\ loc' = [positions |-> positions]
            /\ ret' = [status |-> "ok",
                       new_positions |->
                           DOMAIN positions \ DOMAIN loc.positions]
    /\ pc' = "execute"
    /\ UNCHANGED option_chain

CalculatePnl ==
    /\ \E quoted \in SUBSET {loc.positions[k].position_id :
                                k \in DOMAIN loc.positions},
          price \in QuotedPrices :
        /\ args' = [current_prices |-> [id \in quoted |-> price]]
        /\ \E result \in {calculate_pnl(loc.positions, quoted, price)} :
            /\ loc' = [positions |-> result.positions]
            /\ ret' = [status |-> "ok", total_pnl |-> result.total_pnl]
    /\ pc' = "calculate_pnl"
    /\ UNCHANGED option_chain

Reset ==
    /\ loc.positions # <<>>
    /\ loc' = [positions |-> <<>>]
    /\ args' = NoArgs
    /\ ret' = NoRet
    /\ pc' = "reset"
    /\ UNCHANGED option_chain

NextStrategy == Execute \/ CalculatePnl \/ Reset

SpecStrategy == InitStrategy /\ [][NextStrategy]_vars

\* ---- properties of BaseStrategy ----

Positions == loc.positions

\* C30: between resets a position is open or closed, a closed position
\* stays closed and keeps its realized_pnl through every later execute and
\* calculate_pnl, and the open and the closed positions are disjoint and
\* together are all the positions.
C30_ClosedStaysClosed ==
    /\ [](/\ get_open_positions(Positions) \cap get_closed_positions(Positions)
                = {}
          /\ get_open_positions(Positions) \cup get_closed_positions(Positions)
                = DOMAIN Positions)
    /\ [][pc' # "reset" =>
            \A k \in DOMAIN Positions :
                /\ k \in DOMAIN Positions'
                /\ Positions[k].status = "closed" =>
                        /\ Positions'[k].status = "closed"
                        /\ Positions'[k].realized_pnl
                                = Positions[k].realized_pnl]_vars

\* a position closed with a profit is still closed, with the same
\* realized_pnl, after a later sell signal for its symbol at another price,
\* next to a position that is open
C30_Witness ==
    /\ pc = "execute"
    /\ Len(Positions) = 2
    /\ Positions[1].status = "closed"
    /\ Positions[1].realized_pnl = 1000
    /\ Positions[2].status = "open"
    /\ Positions[2].symbol # Positions[1].symbol
    /\ args.signals = <<[signal_type |-> "sell", symbol |-> Positions[1].symbol,
                         entry_price |-> 0, quantity |-> 50]>>

(***************************************************************************)
(* GreeksCalculator.implied_volatility: Newton-Raphson on the volatility.  *)
(* One action per pass of the loop; loc holds the locals of the call.  A   *)
(* tolerance t is held as t * 10 * FP, so that the default 1e-5 is 1.      *)
(***************************************************************************)
initial_volatility == 2000
volatility_floor == 100

\* abs(diff) < tolerance
Converged(diff, tolerance) ==
    IsFinite(diff) /\ Abs(diff) < (tolerance + 9) \div 10

\* vega > 0 (false for nan)
VegaPositive(vega) == vega # NaN /\ vega > 0

\* the theoretical price of the pass (any option_type but "call" is a put)
theoretical(a, volatility) ==
    IF a.option_type = "call"
    THEN call_price(a.spot, a.strike, a.time_to_expiry, volatility)
    ELSE put_price(a.spot, a.strike, a.time_to_expiry, volatility)

\* vega = spot * norm.pdf(d1) * np.sqrt(time_to_expiry)
iv_vega(a, d) ==
    IF d.status # "ok" THEN NaN
    ELSE MulFP(IMul(a.spot, norm_pdf(d.d1)), np_sqrt(a.time_to_expiry))

\* how a pass ends: return volatility, return None, or update and go on
pass_outcome_unchecked_vega(diff, vega, tolerance) ==
    IF Converged(diff, tolerance) THEN "return" ELSE "update"
pass_outcome(diff, vega, tolerance) ==
    IF Converged(diff, tolerance) THEN "return"
    ELSE IF VegaPositive(vega) THEN "update"
    ELSE "none"

\* volatility - diff / vega, raised to the floor when it is <= 0
next_volatility_unfloored(volatility, diff, vega) ==
    XSub(volatility, DivFP(diff, vega))
next_volatility(volatility, diff, vega) ==
    LET v == XSub(volatility, DivFP(diff, vega))
    IN  IF v # NaN /\ v <= 0 THEN volatility_floor ELSE v

\* the locals after one pass at volatility, or the error the pricing raised
iv_pass_of(a, volatility, price, vega) ==
    IF price.status # "ok" THEN [status |-> price.status]
    ELSE [status |-> "ok",
          theoretical_price |-> price.value,
          vega |-> vega,
          diff |-> XSub(price.value, a.market_price)]
iv_pass(a, volatility) ==
    iv_pass_of(a, volatility, theoretical(a, volatility),
               iv_vega(a, calculate_d1_d2(a.spot, a.strike, a.time_to_expiry,
                                          volatility)))

\* round trips: an option of the given strike, expiry and known volatility is
\* priced and the price handed to the solver
RoundTripCases ==
    {<<100, 1000, 2000>>, <<100, 1000, 6000>>, <<100, 2500, 4000>>,
     <<100, 2500, 5000>>, <<120, 1000, 6000>>, <<120, 1000, 9000>>,
     <<80, 1000, 4000>>, <<80, 2500, 8000>>, <<110, 200, 6000>>,
     <<120, 5000, 5000>>, <<90, 10000, 6000>>, <<95, 2500, 5000>>}
\* direct calls <<market_price, strike, time_to_expiry, option_type>>
DirectCases ==
    {<<0, 100, 1000, "call">>, <<50000, 120, 1000, "call">>,
     <<50000, 120, 1000, "put">>, <<50000, 100, 0, "call">>,
     <<50000, 100, 0 - 1000, "put">>, <<50000, 0, 1000, "call">>}
MaxIterations == {0, 2, 100}
Tolerances == {1, 1000}

InitRoundTrip ==
    /\ pc = "quote"
    /\ \E c \in RoundTripCases, option_type \in {"call", "put"},
          max_iterations \in MaxIterations, tolerance \in Tolerances :
        args = [market_price |-> NaN, spot |-> 100, strike |-> c[1],
                time_to_expiry |-> c[2], option_type |-> option_type,
                max_iterations |-> max_iterations, tolerance |-> tolerance,
                known_volatility |-> c[3]]
    /\ option_chain = NoChain
    /\ ret = NoRet
    /\ loc = NoLoc

InitDirect ==
    /\ pc = "call"
    /\ \E c \in DirectCases,
          max_iterations \in MaxIterations, tolerance \in Tolerances :
        args = [market_price |-> c[1], spot |-> 100, strike |-> c[2],
                time_to_expiry |-> c[3], option_type |-> c[4],
                max_iterations |-> max_iterations, tolerance |-> tolerance,
                known_volatility |-> NaN]
    /\ option_chain = NoChain
    /\ ret = NoRet
    /\ loc = NoLoc

InitIV == InitRoundTrip \/ InitDirect

\* the caller prices the option at the known volatility
QuoteWith(price) ==
    IF price.status = "ok"
    THEN /\ args' = [args EXCEPT !.market_price = price.value]
         /\ pc' = "call"
         /\ ret' = ret
    ELSE /\ args' = args
         /\ pc' = "done"
         /\ ret' = [status |-> price.status]
Quote ==
    /\ pc = "quote"
    /\ QuoteWith(theoretical(args, args.known_volatility))
    /\ UNCHANGED <<option_chain, loc>>

\* implied_volatility is entered: volatility = 0.20
IVEnter ==
    /\ pc = "call"
    /\ loc' = [volatility |-> initial_volatility, i |-> 0,
               theoretical_price |-> NaN, vega |-> NaN, diff |-> NaN]
    /\ pc' = "loop"
    /\ UNCHANGED <<option_chain, args, ret>>

\* one pass of the loop; loc.i counts the passes made
IterateWith(p, outcome) ==
    IF p.status # "ok"
    THEN /\ loc' = [loc EXCEPT !.i = @ + 1]
         /\ ret' = [status |-> p.status]
         /\ pc' = "done"
    ELSE /\ loc' = [volatility |->
                        IF outcome = "update"
                        THEN next_volatility(loc.volatility, p.diff, p.vega)
                        ELSE loc.volatility,
                    i |-> loc.i + 1,
                    theoretical_price |-> p.theoretical_price,
                    vega |-> p.vega,
                    diff |-> p.diff]
         /\ ret' = IF outcome = "return"
                   THEN [status |-> "ok", none |-> FALSE,
                         value |-> loc.volatility]
                   ELSE IF outcome = "none"
                   THEN [status |-> "ok", none |-> TRUE, value |-> NaN]
                   ELSE ret
         /\ pc' = IF outcome = "update" THEN "loop" ELSE "done"
IterateOn(p) ==
    IterateWith(p, IF p.status = "ok"
                   THEN pass_outcome(p.diff, p.vega, args.tolerance)
                   ELSE "raise")
IVIterate ==
    /\ pc = "loop"
    /\ loc.i < args.max_iterations
    /\ IterateOn(iv_pass(args, loc.volatility))
    /\ UNCHANGED <<option_chain, args>>

\* range(max_iterations) is used up: a warning is logged, None is returned
IVExhausted ==
    /\ pc = "loop"
    /\ loc.i >= args.max_iterations
    /\ ret' = [status |-> "ok", none |-> TRUE, value |-> NaN]
    /\ pc' = "done"
    /\ UNCHANGED <<option_chain, args, loc>>

NextIV == Quote \/ IVEnter \/ IVIterate \/ IVExhausted

SpecIV == InitIV /\ [][NextIV]_vars

\* ---- properties of implied_volatility ----

IvRunning == pc = "loop"
IvReturned == pc = "done" /\ loc # NoLoc /\ ret.status = "ok"
IvReturnedNone == IvReturned /\ ret.none
IvReturnedValue == IvReturned /\ ~ret.none

\* the last pass made did not converge and had a positive vega
LastPassWentOn ==
    ~Converged(loc.diff, args.tolerance) /\ VegaPositive(loc.vega)

\* C7: with time_to_expiry > 0 the solver makes at most max_iterations
\* passes (one price evaluation each); it returns a volatility v only if
\* |theoretical_price(v) - market_price| < tolerance in that pass; it returns
\* None, without raising, when max_iterations passes went by without
\* convergence, and at once in the first non-converged pass whose vega is
\* not positive.
C7_SolverStops ==
    (args.time_to_expiry > 0 /\ loc # NoLoc) =>
        /\ loc.i <= args.max_iterations
        /\ (IvRunning /\ loc.i > 0) => LastPassWentOn
        /\ (IvRunning /\ loc.i = args.max_iterations) =>
                ENABLED IVExhausted /\ ~ENABLED IVIterate
        /\ IvReturnedValue =>
                /\ loc.i >= 1
                /\ ret.value = loc.volatility
                /\ Converged(XSub(theoretical(args, ret.value).value,
                                  args.market_price), args.tolerance)
        /\ IvReturnedNone =>
                \/ loc.i = args.max_iterations /\ (loc.i > 0 => LastPassWentOn)
                \/ /\ loc.i >= 1
                   /\ ~Converged(loc.diff, args.tolerance)
                   /\ ~VegaPositive(loc.vega)
        /\ pc = "done" =>
                \/ ret.status = "ok"
                \/ ret.status = "ZeroDivisionError" /\ args.strike = 0

\* None returned in the third pass of 100, whose vega is not positive
C7_Witness ==
    /\ IvReturnedNone
    /\ args.time_to_expiry > 0
    /\ args.max_iterations = 100
    /\ loc.i = 3
    /\ ~Converged(loc.diff, args.tolerance)
    /\ ~VegaPositive(loc.vega)

\* a round trip with the default max_iterations and tolerance, for a
\* volatility in (0, 1)
DefaultRoundTrip ==
    /\ args.known_volatility # NaN
    /\ args.known_volatility > 0 /\ args.known_volatility < FP
    /\ args.time_to_expiry > 0 /\ args.spot > 0 /\ args.strike > 0
    /\ args.max_iterations = 100
    /\ args.tolerance = 1

\* C9: pricing an option at a volatility in (0, 1) and handing the price to
\* implied_volatility, with the default max_iterations and tolerance,
\* returns a value (not None) within 1e-2 of that volatility.
C9_RoundTripRecovers ==
    (DefaultRoundTrip /\ pc = "done") =>
        /\ IvReturnedValue
        /\ Abs(ret.value - args.known_volatility) < FP \div 100

\* a round trip that does recover a volatility other than the first guess
C9_Witness ==
    /\ DefaultRoundTrip
    /\ IvReturnedValue
    /\ args.known_volatility # initial_volatility
    /\ Abs(ret.value - args.known_volatility) < FP \div 100
    /\ loc.i >= 3

\* a pass of the loop is made in this step
PassMade == pc = "loop" /\ loc' # loc
\* the iterate of the state is a number > 0
PositiveIterate == loc.volatility # NaN /\ loc.volatility > 0

\* C28: the iterate is 0.20 when the loop is entered; a pass that goes on
\* leaves the iterate at the previous one minus (theoretical_price -
\* market_price) / vega, and at exactly 0.01 when that is <= 0; every pass
\* prices the option at the iterate of the state, which is > 0, and every
\* volatility returned is > 0.
C28_IteratesStayPositive ==
    /\ [](loc # NoLoc =>
            /\ PositiveIterate
            /\ loc.i = 0 => loc.volatility = initial_volatility
            /\ IvReturnedValue => (ret.value # NaN /\ ret.value > 0))
    /\ [][PassMade =>
            /\ PositiveIterate
            /\ ret'.status = "ok" =>
                    loc'.theoretical_price
                        = theoretical(args, loc.volatility).value
            /\ pc' = "loop" =>
                    LET v == XSub(loc.volatility,
                                  DivFP(loc'.diff, loc'.vega))
                    IN  loc'.volatility =
                            IF v <= 0 THEN volatility_floor ELSE v]_vars

\* the update of a pass was <= 0 and the next pass was made at 0.01
C28_Witness ==
    /\ loc # NoLoc
    /\ loc.i >= 2
    /\ args.max_iterations = 100
    /\ pc = "loop"
    /\ loc.volatility = volatility_floor
    /\ theoretical(args, volatility_floor).status = "ok"
    /\ loc.theoretical_price = theoretical(args, volatility_floor).value
    /\ args.time_to_expiry > 0

====
